---- MODULE Spec2Model ----
(***************************************************************************)
(* Credit ledger and credit gate of the exam-prep application.             *)
(*                                                                         *)
(* The ledger is the user_subscriptions row of one account together with   *)
(* the append-only credit_transactions table.  It is written by            *)
(*   - the useCredits hook (hooks/useCredits.ts), one instance per screen  *)
(*     or device of the account,                                           *)
(*   - the billing service through the useCreditCheck hook, which calls    *)
(*     the get_user_credits / deduct_credits remote procedures,            *)
(*   - the payment webhook (supabase/functions/dodo-webhook/index.ts).     *)
(* The two generator screens (PDFGeneratorScreen, AIMCQGeneratorScreen)    *)
(* debit through their hook instance before they call the generation       *)
(* endpoint.                                                               *)
(*                                                                         *)
(* Every await of the source is a step boundary: a request is issued in    *)
(* one step and the database applies it in a later one, so that the        *)
(* operations of two devices and of the webhook interleave as they do on   *)
(* the real ledger.                                                        *)
(*                                                                         *)
(* Three specifications share the actions of the ledger:                   *)
(*   Spec        two hook instances and one caller of the billing service, *)
(*   SpecLedger  one hook instance, the caller and the webhook,            *)
(*   SpecGen     the two generator screens, each on its hook instance.     *)
(* Two more apply the pure functions of the screens to bounded inputs:     *)
(*   SpecParse   the layered parsers of the model's answer,                *)
(*   SpecCount   the clamping of the requested question count.             *)
(* Five more start from a state the application can be in:                 *)
(*   SpecAnswer  answering the questions of a generated session,           *)
(*   SpecWebhook the webhook alone, on an account with purchased credits,  *)
(*   SpecPlan    the credits the handlers compute for a plan,              *)
(*   SpecKey     the user_id an event is stored under,                     *)
(*   SpecAuth    verifyAuth of the admin interface on one request.         *)
(***************************************************************************)
EXTENDS Integers, Sequences, FiniteSets, TLC

\* ------------------------------------------------------------------ bounds
\* operations started in a behaviour of Spec (the clients on their own)
MaxDebits == 2
MaxFetches == 2
\* operations started in a behaviour of SpecLedger (clients and webhook)
LedgerDebits == 2
LedgerFetches == 1
LedgerEvents == 1
\* operations started in a behaviour of SpecGen (the generator screens)
GenDebits == 2
GenFetches == 2
\* entries of a JSON answer and blocks of a text answer in SpecParse
MaxEntries == 2
MaxBlocks == 2
\* characters typed into a count field in SpecCount
MaxTyped == 3
\* questions of the generated session in SpecAnswer
MaxQuestions == 2
\* events the webhook is sent in a behaviour of SpecWebhook
WebhookEvents == 2

\* --------------------------------------------------------------- constants
Null == "null"
NoUser == "no_user"
TheUser == "user"

\* the instances of the useCredits hook (one per screen or device of the account)
\* and the callers of the billing service through useCreditCheck
Hooks == {"h1", "h2"}
Callers == {"s1"}
Clients == Hooks \cup Callers

\* the hook instances the two generator screens hold
PdfScreen == "h1"
AiScreen == "h2"

CREDIT_COSTS ==
    [summary |-> 1, mind_map |-> 2, mcq_generator |-> 3, pdf_mcq |-> 5,
     essay_evaluation |-> 3]

FeatureType == DOMAIN CREDIT_COSTS

\* features the devices ask for (the two the generator screens use)
FeatureInputs == {"mcq_generator", "pdf_mcq"}

\* balances an account may hold when the devices start
InitCredits == {2, 5}

\* the ledger requests a device may have outstanding
HookRequestPcs == {"fetching", "updating", "logging"}

DevCredits == 9999

PLAN_CREDITS == [basic |-> 200, pro |-> 400]

BasicPlanProduct == "pdt_0NWfIDvBZePuVfiU5bmom"
ProPlanProduct == "pdt_0NWfIFkWCMpUGhXYfg4aw"
Credits50Product == "pdt_0NWfIIB8YCLeExHJxEp0D"
Credits120Product == "pdt_0NWfIJl53N3g787FepmFP"
Credits300Product == "pdt_0NWfILvFXsCCRNki0ojs6"
OtherProduct == "pdt_other"

\* PACKAGE_CREDITS[product_id], 0 standing for undefined
PACKAGE_CREDITS(product_id) ==
    CASE product_id = Credits50Product -> 50
      [] product_id = Credits120Product -> 120
      [] product_id = Credits300Product -> 300
      [] OTHER -> 0

\* PRODUCT_PLANS[product_id], Null standing for undefined
PRODUCT_PLANS(product_id) ==
    CASE product_id = BasicPlanProduct -> "basic"
      [] product_id = ProPlanProduct -> "pro"
      [] OTHER -> Null

\* ------------------------------------------------------------------- state
VARIABLES
    isDev,               \* environment: isDev() of the build
    user,                \* user[c]: the authenticated user of client c
    user_subscriptions,  \* the account's row of the ledger
    credit_transactions, \* the transaction log
    channel,             \* channel[h]: realtime UPDATE payloads in flight to hook h
    credits,             \* useCredits hook state
    planType,
    error,
    svcCredits,          \* useCreditCheck hook state
    svcPlanType,
    pc,                  \* pc[c]: position of the operation client c runs
                         \* (a client runs one operation at a time; two
                         \* concurrent calls are calls of two clients)
    local,               \* local[d]: what that operation captured
    result,              \* result[d]: what the last finished operation returned
    nDebits, nFetches,    \* debits and balance queries the clients may still start
    whPc,                \* position of the webhook's handler
    whLocal,             \* what the handler holds between its awaits
    nEvents,             \* events the webhook may still be sent
    stage,               \* PDFGeneratorScreen: ProcessStage
    isLoading,           \* AIMCQGeneratorScreen: isLoading
    proc,                \* proc[h]: the generation invocation of h's screen
    mcqs,                \* mcqs[h]: the questions h's screen shows
    errorMessage,        \* errorMessage[h]: the error h's screen shows
    sessions,            \* the sessions saved in the device's local storage
    late,                \* late[h]: invocations reset away while in flight
    generator,           \* the generator an answer is handed to
    response,            \* the content of that answer
    generated,           \* what the generator made of it
    mcqCount,            \* PDFGeneratorScreen: the text of the count field
    questionCount,       \* AIMCQGeneratorScreen: the text of the count field
    count,               \* the count a screen hands to its generator
    selectedAnswers,     \* selectedAnswers[h]: question id -> chosen option
    showResults,         \* showResults[h]: the ids whose answer is revealed
    currentSession,      \* currentSession[h]: the session object the screen holds
    persisted,           \* persisted[h]: the stored copy of that session
    saving,              \* saving[h]: saves of answer updates in flight
    planEvent,           \* a subscription event whose credits are computed
    grant,               \* the credits computed for it
    identity,            \* a user and a webhook event about that user
    keyed,               \* the user_id the webhook stored the event under
    request,             \* a request to the admin interface
    authUser             \* what verifyAuth returned for it

ledgerVars == <<user_subscriptions, credit_transactions, channel>>
hookVars == <<credits, planType, error>>
svcVars == <<svcCredits, svcPlanType>>
procVars == <<pc, local, result, nDebits, nFetches>>
envVars == <<isDev, user>>
whVars == <<whPc, whLocal, nEvents>>
screenVars == <<stage, isLoading, proc>>
viewVars == <<mcqs, errorMessage, sessions, late>>
parseVars == <<generator, response, generated>>
countVars == <<mcqCount, questionCount, count>>
answerVars == <<selectedAnswers, showResults, currentSession, persisted, saving>>
planVars == <<planEvent, grant>>
keyVars == <<identity, keyed>>
authVars == <<request, authUser>>
vars == <<envVars, ledgerVars, hookVars, svcVars, procVars, whVars, screenVars,
          viewVars, parseVars, countVars, answerVars, planVars, keyVars, authVars>>

\* the state of the ledger, of its clients and of the screens
machineVars ==
    <<envVars, ledgerVars, hookVars, svcVars, procVars, whVars, screenVars,
      viewVars, answerVars>>

\* what no step of a hook or of the service, no step of the webhook, and no
\* step of a screen touches
deviceFrame ==
    <<envVars, whVars, screenVars, viewVars, parseVars, countVars, answerVars,
      planVars, keyVars, authVars>>
webhookFrame ==
    <<envVars, hookVars, svcVars, procVars, screenVars, viewVars, parseVars,
      countVars, answerVars, planVars, keyVars, authVars>>
screenFrame ==
    <<envVars, whVars, ledgerVars, hookVars, svcVars, parseVars, countVars,
      planVars, keyVars, authVars>>

NoRow ==
    [exists |-> FALSE, plan_type |-> "free", status |-> "none",
     monthly_credits |-> 0, current_credits |-> 0,
     dodo_subscription_id |-> Null]

PlanRow(plan, n) ==
    [exists |-> TRUE, plan_type |-> plan, status |-> "active",
     monthly_credits |-> PLAN_CREDITS[plan], current_credits |-> n,
     dodo_subscription_id |-> "sub_1"]

FreeRow(n) ==
    [exists |-> TRUE, plan_type |-> "free", status |-> "active",
     monthly_credits |-> 0, current_credits |-> n,
     dodo_subscription_id |-> Null]

\* ledger, before and after are history fields: the row's balance when the
\* operation was called and around its write
NoLocal == [feature |-> Null, credits |-> 0, ledger |-> 0, before |-> 0,
            after |-> 0]
NoResult == [op |-> Null, success |-> FALSE, kind |-> Null, feature |-> Null,
             balance |-> 0, ledger |-> 0]

\* at is the await the invocation stands at; debit and requests are history
\* fields: how the invocation's debit ended and the requests it has sent to
\* the generation endpoint
NoProc ==
    [at |-> "idle", debit |-> "none", requests |-> 0,
     generated |-> <<>>, cancelled |-> "no"]

\* the debit a screen awaits has returned and its continuation has not run yet
\* (the continuation of an await runs before any later handler of the device)
Resuming(d) == proc[d].at = "deducting" /\ pc[d] = "idle"

canBypassCredits == isDev
getDevCredits == IF isDev THEN DevCredits ELSE 0

\* userId || userEmail of the hook
Identifier(d) == user[d]

\* the realtime subscription effect: a device with an identifier listens
Subscribed(d) == user[d] # NoUser

\* the database publishes an UPDATE of the row to every listening device
Publish(newRow) ==
    [d \in Hooks |->
        IF Subscribed(d)
        THEN Append(channel[d], [current_credits |-> newRow.current_credits,
                                 plan_type |-> newRow.plan_type])
        ELSE channel[d]]

Done(d, r) ==
    /\ pc' = [pc EXCEPT ![d] = "idle"]
    /\ local' = [local EXCEPT ![d] = NoLocal]
    /\ result' = [result EXCEPT ![d] = r]

\* ------------------------------------------------------- hook: fetchCredits
fetchCredits(d) ==
    /\ pc[d] = "idle"
    /\ ~Resuming(d)
    /\ nFetches > 0
    /\ nFetches' = nFetches - 1
    /\ UNCHANGED <<deviceFrame, ledgerVars, svcVars, error, nDebits>>
    /\ IF canBypassCredits
       THEN /\ credits' = [credits EXCEPT ![d] = getDevCredits]
            /\ planType' = [planType EXCEPT ![d] = "pro"]
            /\ Done(d, [NoResult EXCEPT !.op = "fetchCredits", !.success = TRUE])
       ELSE IF Identifier(d) = NoUser
       THEN /\ credits' = [credits EXCEPT ![d] = 0]
            /\ planType' = [planType EXCEPT ![d] = "free"]
            /\ Done(d, [NoResult EXCEPT !.op = "fetchCredits", !.success = TRUE])
       ELSE /\ pc' = [pc EXCEPT ![d] = "fetching"]
            /\ UNCHANGED <<credits, planType, local, result>>

\* what the continuation of query.single() makes of its outcome
FetchedCredits(d, outcome) ==
    CASE outcome = "ok" /\ user_subscriptions.exists
            -> user_subscriptions.current_credits
      [] outcome = "throw" -> credits[d]
      [] OTHER -> 0

FetchedPlan(d, outcome) ==
    CASE outcome = "ok" /\ user_subscriptions.exists
            -> user_subscriptions.plan_type
      [] outcome = "throw" -> planType[d]
      [] OTHER -> "free"

fetchCreditsReturn(d) ==
    /\ pc[d] = "fetching"
    /\ \E outcome \in {"ok", "error", "throw"} :
        /\ credits' = [credits EXCEPT ![d] = FetchedCredits(d, outcome)]
        /\ planType' = [planType EXCEPT ![d] = FetchedPlan(d, outcome)]
        /\ error' = [error EXCEPT ![d] = @ \/ outcome # "ok"]
        /\ Done(d, [NoResult EXCEPT !.op = "fetchCredits",
                                    !.success = (outcome = "ok"),
                                    !.kind = outcome])
    /\ UNCHANGED <<deviceFrame, ledgerVars, svcVars, nDebits, nFetches>>

\* --------------------------------------------------- hook: hasEnoughCredits
\* a sufficiency check that looks at the cached balance only
hasEnoughCreditsCached(d, feature) == credits[d] >= CREDIT_COSTS[feature]

hasEnoughCredits(d, feature) ==
    IF canBypassCredits THEN TRUE ELSE credits[d] >= CREDIT_COSTS[feature]

\* -------------------------------------------------------- hook: useCredits
Usage(feature, cost, balanceAfter, before, after) ==
    [transaction_type |-> "usage", credits |-> 0 - cost,
     balance_after |-> balanceAfter, feature_used |-> feature,
     dodo_payment_id |-> Null,
     \* history fields: the row's balance around the write this records
     before |-> before, after |-> after]

\* what a call of useCredits returned; balance is the cached balance it was
\* called with (the one its alert shows)
DebitResult(feature, success, kind, balance, ledger) ==
    [op |-> "useCredits", success |-> success, kind |-> kind,
     feature |-> feature, balance |-> balance, ledger |-> ledger]

\* a hook that sends its update whatever its cached balance is
InsufficientCreditsNever(cached, cost) == FALSE

\* the guard in front of the ledger write
InsufficientCredits(cached, cost) == cached < cost

\* the synchronous head of useCredits up to its first await
useCreditsCall(d, feature) ==
    /\ pc[d] = "idle"
    /\ nDebits > 0
    /\ nDebits' = nDebits - 1
    /\ UNCHANGED nFetches
    /\ LET cost == CREDIT_COSTS[feature]
           ledger == user_subscriptions.current_credits
       IN
       IF canBypassCredits
       THEN /\ Done(d, DebitResult(feature, TRUE, "bypass", credits[d], ledger))
       ELSE IF InsufficientCredits(credits[d], cost)
       THEN /\ Done(d, DebitResult(feature, FALSE, "InsufficientCredits",
                                   credits[d], ledger))
       ELSE IF Identifier(d) = NoUser
       THEN /\ Done(d, DebitResult(feature, FALSE, "NoIdentifier", credits[d],
                                   ledger))
       ELSE /\ pc' = [pc EXCEPT ![d] = "updating"]
            /\ local' = [local EXCEPT ![d] =
                            [NoLocal EXCEPT !.feature = feature,
                                            !.credits = credits[d],
                                            !.ledger = ledger]]
            /\ UNCHANGED result

\* a call of useCredits by a caller this model does not follow further
useCredits(d, feature) ==
    /\ ~Resuming(d)
    /\ useCreditsCall(d, feature)
    /\ UNCHANGED <<deviceFrame, ledgerVars, hookVars, svcVars>>

\* the value the hook writes into current_credits
DeductedBalance(cached, ledger, cost) == cached - cost

\* the ledger applies .update({current_credits: credits - cost}).eq(user_id)
useCreditsUpdate(d) ==
    /\ pc[d] = "updating"
    /\ LET feature == local[d].feature
           cost == CREDIT_COSTS[feature]
           old == user_subscriptions
           new == [old EXCEPT !.current_credits =
                      DeductedBalance(local[d].credits, old.current_credits, cost)]
       IN \E outcome \in {"ok", "error"} :
            IF outcome = "error"
            THEN /\ Done(d, DebitResult(feature, FALSE, "LedgerError",
                                        local[d].credits,
                                        local[d].ledger))
                 /\ UNCHANGED ledgerVars
            ELSE /\ pc' = [pc EXCEPT ![d] = "logging"]
                 /\ UNCHANGED result
                 /\ IF old.exists
                    THEN /\ user_subscriptions' = new
                         /\ channel' = Publish(new)
                         /\ local' = [local EXCEPT ![d].before = old.current_credits,
                                                   ![d].after = new.current_credits]
                    ELSE /\ UNCHANGED <<user_subscriptions, channel>>
                         /\ local' = [local EXCEPT ![d].before = old.current_credits,
                                                   ![d].after = old.current_credits]
                 /\ UNCHANGED credit_transactions
    /\ UNCHANGED <<deviceFrame, hookVars, svcVars, nDebits, nFetches>>

\* the insert into credit_transactions and the rest of the try block
useCreditsLog(d) ==
    /\ pc[d] = "logging"
    /\ LET feature == local[d].feature
           cost == CREDIT_COSTS[feature]
       IN \E outcome \in {"ok", "error", "throw"} :
            /\ credit_transactions' =
                 IF outcome = "ok"
                 THEN Append(credit_transactions,
                             Usage(feature, cost, local[d].credits - cost,
                                   local[d].before, local[d].after))
                 ELSE credit_transactions
            /\ IF outcome = "throw"
               THEN /\ Done(d, DebitResult(feature, FALSE, "Exception",
                                           local[d].credits, local[d].ledger))
                    /\ UNCHANGED credits
               ELSE /\ credits' = [credits EXCEPT ![d] = @ - cost]
                    /\ Done(d, DebitResult(feature, TRUE, outcome,
                                           local[d].credits, local[d].ledger))
    /\ UNCHANGED <<deviceFrame, user_subscriptions, channel, planType, error,
                   svcVars, nDebits, nFetches>>

\* ------------------------------------------------ hook: realtime subscription
realtimeUpdate(d) ==
    /\ channel[d] # <<>>
    /\ credits' = [credits EXCEPT ![d] = Head(channel[d]).current_credits]
    /\ planType' = [planType EXCEPT ![d] = Head(channel[d]).plan_type]
    /\ channel' = [channel EXCEPT ![d] = Tail(@)]
    /\ UNCHANGED <<deviceFrame, user_subscriptions, credit_transactions, error,
                   svcVars, procVars>>

\* ------------------------------------------ ledger: remote procedures
\* get_user_credits: the account's balance; the account is created lazily,
\* free tier and zero balance, on the first query that finds no record
RpcGetUserCreditsRow(row) == IF row.exists THEN row ELSE FreeRow(0)

RpcGetUserCredits(row) ==
    [plan_type |-> RpcGetUserCreditsRow(row).plan_type,
     credits |-> RpcGetUserCreditsRow(row).current_credits]

\* deduct_credits: one conditional update at the ledger
RpcDeductCreditsOk(row, p_credits) ==
    row.exists /\ row.current_credits >= p_credits

RpcDeductCreditsRow(row, p_credits) ==
    IF RpcDeductCreditsOk(row, p_credits)
    THEN [row EXCEPT !.current_credits = @ - p_credits]
    ELSE row

\* ------------------------------------------- billing service: getUserCredits
NoBalance == [plan_type |-> "none", credits |-> 0]

\* the CreditBalance getUserCredits resolves to
getUserCredits(d, outcome) ==
    IF user[d] = NoUser THEN NoBalance
    ELSE IF outcome = "error" THEN NoBalance
    ELSE RpcGetUserCredits(user_subscriptions)

CheckResult(op, feature, success, kind, balance) ==
    [op |-> op, success |-> success, kind |-> kind, feature |-> feature,
     balance |-> balance, ledger |-> 0]

\* ------------------------------------------------ useCreditCheck: hasCredits
hasCredits(d, feature) ==
    /\ pc[d] = "idle"
    /\ nFetches > 0
    /\ nFetches' = nFetches - 1
    /\ UNCHANGED <<deviceFrame, ledgerVars, hookVars, nDebits>>
    /\ IF user[d] = NoUser
       THEN LET balance == getUserCredits(d, "ok") IN
            /\ svcCredits' = [svcCredits EXCEPT ![d] = balance.credits]
            /\ svcPlanType' = [svcPlanType EXCEPT ![d] = balance.plan_type]
            /\ Done(d, CheckResult("hasCredits", feature,
                                   balance.credits >= CREDIT_COSTS[feature],
                                   "ok", balance.credits))
       ELSE /\ pc' = [pc EXCEPT ![d] = "svc_checking"]
            /\ local' = [local EXCEPT ![d] = [NoLocal EXCEPT !.feature = feature]]
            /\ UNCHANGED <<svcVars, result>>

hasCreditsReturn(d) ==
    /\ pc[d] = "svc_checking"
    /\ \E outcome \in {"ok", "error", "throw"} :
        LET balance == getUserCredits(d, outcome)
            feature == local[d].feature
        IN IF outcome = "throw"
           THEN /\ Done(d, CheckResult("hasCredits", feature, FALSE, outcome,
                                       svcCredits[d]))
                /\ UNCHANGED <<svcVars, user_subscriptions>>
           ELSE /\ svcCredits' = [svcCredits EXCEPT ![d] = balance.credits]
                /\ svcPlanType' = [svcPlanType EXCEPT ![d] = balance.plan_type]
                /\ user_subscriptions' =
                     IF outcome = "ok" THEN RpcGetUserCreditsRow(user_subscriptions)
                     ELSE user_subscriptions
                /\ Done(d, CheckResult("hasCredits", feature,
                                       balance.credits >= CREDIT_COSTS[feature],
                                       outcome, balance.credits))
    /\ UNCHANGED <<deviceFrame, credit_transactions, channel, hookVars,
                   nDebits, nFetches>>

\* -------------------------------------------- useCreditCheck: consumeCredits
consumeCredits(d, feature) ==
    /\ pc[d] = "idle"
    /\ nDebits > 0
    /\ nDebits' = nDebits - 1
    /\ UNCHANGED <<deviceFrame, ledgerVars, hookVars, svcVars, nFetches>>
    /\ IF user[d] = NoUser
       THEN /\ Done(d, CheckResult("consumeCredits", feature, FALSE,
                                   "InsufficientCredits",
                                   getUserCredits(d, "ok").credits))
       ELSE /\ pc' = [pc EXCEPT ![d] = "consume_checking"]
            /\ local' = [local EXCEPT ![d] = [NoLocal EXCEPT !.feature = feature]]
            /\ UNCHANGED result

\* checkCredits returns; billingService.useCredits sends deduct_credits
consumeCreditsCheck(d) ==
    /\ pc[d] = "consume_checking"
    /\ \E outcome \in {"ok", "error"} :
        LET balance == getUserCredits(d, outcome)
            feature == local[d].feature
        IN /\ user_subscriptions' =
                IF outcome = "ok" THEN RpcGetUserCreditsRow(user_subscriptions)
                ELSE user_subscriptions
           /\ IF balance.credits >= CREDIT_COSTS[feature]
              THEN /\ pc' = [pc EXCEPT ![d] = "consume_deducting"]
                   /\ UNCHANGED <<local, result>>
              ELSE /\ Done(d, CheckResult("consumeCredits", feature, FALSE,
                                          "InsufficientCredits",
                                          balance.credits))
    /\ UNCHANGED <<deviceFrame, credit_transactions, channel, hookVars, svcVars,
                   nDebits, nFetches>>

\* the ledger runs deduct_credits and consumeCredits takes its answer
consumeCreditsDeduct(d) ==
    /\ pc[d] = "consume_deducting"
    /\ LET feature == local[d].feature
           cost == CREDIT_COSTS[feature]
           old == user_subscriptions
           new == RpcDeductCreditsRow(old, cost)
       IN \E outcome \in {"ok", "error"} :
            IF outcome = "error"
            THEN /\ Done(d, CheckResult("consumeCredits", feature, FALSE,
                                        "LedgerError", 0))
                 /\ UNCHANGED <<ledgerVars, svcVars>>
            ELSE IF RpcDeductCreditsOk(old, cost)
            THEN /\ user_subscriptions' = new
                 /\ channel' = Publish(new)
                 /\ credit_transactions' =
                      Append(credit_transactions,
                             Usage(feature, cost, new.current_credits,
                                   old.current_credits, new.current_credits))
                 /\ svcCredits' = [svcCredits EXCEPT ![d] = new.current_credits]
                 /\ UNCHANGED svcPlanType
                 /\ Done(d, CheckResult("consumeCredits", feature, TRUE, "ok",
                                        new.current_credits))
            ELSE /\ Done(d, CheckResult("consumeCredits", feature, FALSE,
                                        "InsufficientCredits",
                                        old.current_credits))
                 /\ UNCHANGED <<ledgerVars, svcVars>>
    /\ UNCHANGED <<deviceFrame, hookVars, nDebits, nFetches>>

\* ------------------------------------------------------------ the webhook
EventTypes ==
    {"subscription.active", "subscription.created", "subscription.renewed",
     "subscription.cancelled", "subscription.expired", "payment.succeeded",
     "payment.completed", "payment.failed", "unhandled"}

ProductInputs == {BasicPlanProduct, ProPlanProduct, Credits50Product, OtherProduct}
SubscriptionIds == {"sub_1"}
PaymentIds == {"pay_1"}

\* payload.data of the events the webhook is sent
EventData ==
    [product_id : ProductInputs, subscription_id : SubscriptionIds,
     payment_id : PaymentIds, has_email : BOOLEAN]

NoWork ==
    [payment_id |-> Null, credits |-> 0, newBalance |-> 0, found |-> FALSE,
     before |-> 0, after |-> 0]

Credit(type, amount, balanceAfter, payment_id, before, after) ==
    [transaction_type |-> type, credits |-> amount,
     balance_after |-> balanceAfter, feature_used |-> Null,
     dodo_payment_id |-> payment_id,
     before |-> before, after |-> after]

WebhookDone ==
    /\ whPc' = "idle"
    /\ whLocal' = NoWork

\* PRODUCT_PLANS[product_id] || 'basic'
SubscribedPlan(product_id) ==
    IF PRODUCT_PLANS(product_id) = Null THEN "basic" ELSE PRODUCT_PLANS(product_id)

\* PLAN_CREDITS[planType] || 200
RenewalCredits(plan_type) ==
    IF plan_type \in DOMAIN PLAN_CREDITS THEN PLAN_CREDITS[plan_type] ELSE 200

\* dodoPaymentsService.handleWebhook: the action and the credits it returns
\* for an event whose metadata carries plan_type
handleWebhook(type, plan_type) ==
    CASE type = "subscription.created" ->
            [action |-> "provision_subscription",
             credits |-> IF plan_type = "pro" THEN 400 ELSE 200]
      [] type = "subscription.renewed" ->
            [action |-> "renew_credits",
             credits |-> IF plan_type = "pro" THEN 400 ELSE 200]
      [] type = "subscription.cancelled" ->
            [action |-> "cancel_subscription", credits |-> 0]
      [] OTHER -> [action |-> "none", credits |-> 0]

\* the balance the subscription upsert stores
SubscriptionBalance(oldRow, monthlyCredits) == monthlyCredits

\* handleSubscriptionCreated up to and including its upsert
handleSubscriptionCreated(data) ==
    LET plan == SubscribedPlan(data.product_id)
        monthlyCredits == PLAN_CREDITS[plan]
        old == user_subscriptions
        new == [exists |-> TRUE, plan_type |-> plan, status |-> "active",
                monthly_credits |-> monthlyCredits,
                current_credits |-> SubscriptionBalance(old, monthlyCredits),
                dodo_subscription_id |-> data.subscription_id]
    IN IF ~data.has_email
       THEN WebhookDone /\ UNCHANGED ledgerVars
       ELSE \E outcome \in {"ok", "error"} :
            IF outcome = "error"
            THEN WebhookDone /\ UNCHANGED ledgerVars
            ELSE /\ user_subscriptions' = new
                 /\ channel' = IF old.exists THEN Publish(new) ELSE channel
                 /\ whPc' = "created_log"
                 /\ whLocal' = [NoWork EXCEPT !.payment_id = data.payment_id,
                                              !.credits = monthlyCredits,
                                              !.newBalance = monthlyCredits,
                                              !.before = old.current_credits,
                                              !.after = new.current_credits]
                 /\ UNCHANGED credit_transactions

\* handleSubscriptionRenewed up to the answer of its select
handleSubscriptionRenewed(data) ==
    LET subscription == user_subscriptions
        monthlyCredits == RenewalCredits(subscription.plan_type)
    IN /\ UNCHANGED ledgerVars
       /\ IF subscription.exists
             /\ subscription.dodo_subscription_id = data.subscription_id
          THEN /\ whPc' = "renewed_update"
               /\ whLocal' = [NoWork EXCEPT
                     !.payment_id = data.payment_id,
                     !.credits = monthlyCredits,
                     !.newBalance = subscription.current_credits + monthlyCredits,
                     !.found = TRUE]
          ELSE WebhookDone

\* a cancellation that also takes the plan and the balance away
handleSubscriptionCancelledDowngrading(data) ==
    LET old == user_subscriptions
        new == [old EXCEPT !.status = "cancelled", !.plan_type = "free",
                           !.monthly_credits = 0, !.current_credits = 0]
    IN /\ WebhookDone
       /\ UNCHANGED credit_transactions
       /\ IF old.exists /\ old.dodo_subscription_id = data.subscription_id
          THEN /\ user_subscriptions' = new
               /\ channel' = Publish(new)
          ELSE UNCHANGED <<user_subscriptions, channel>>

\* handleSubscriptionCancelled
handleSubscriptionCancelled(data) ==
    LET old == user_subscriptions
        new == [old EXCEPT !.status = "cancelled"]
    IN /\ WebhookDone
       /\ UNCHANGED credit_transactions
       /\ IF old.exists /\ old.dodo_subscription_id = data.subscription_id
          THEN /\ user_subscriptions' = new
               /\ channel' = Publish(new)
          ELSE UNCHANGED <<user_subscriptions, channel>>

\* handlePaymentCompleted up to the answer of its select
handlePaymentCompleted(data) ==
    LET creditsAmount == PACKAGE_CREDITS(data.product_id)
        existingSub == user_subscriptions
        currentCredits == IF existingSub.exists THEN existingSub.current_credits ELSE 0
    IN /\ UNCHANGED ledgerVars
       /\ IF creditsAmount = 0
          THEN WebhookDone
          ELSE /\ whPc' = "payment_write"
               /\ whLocal' = [NoWork EXCEPT
                     !.payment_id = data.payment_id,
                     !.credits = creditsAmount,
                     !.newBalance = currentCredits + creditsAmount,
                     !.found = existingSub.exists]

\* handlePaymentFailed writes payment_history only
handlePaymentFailed(data) ==
    /\ WebhookDone
    /\ UNCHANGED ledgerVars

\* serve: the switch on payload.type
serve(type, data) ==
    /\ whPc = "idle"
    /\ nEvents > 0
    /\ nEvents' = nEvents - 1
    /\ CASE type \in {"subscription.active", "subscription.created"}
              -> handleSubscriptionCreated(data)
         [] type = "subscription.renewed" -> handleSubscriptionRenewed(data)
         [] type \in {"subscription.cancelled", "subscription.expired"}
              -> handleSubscriptionCancelled(data)
         [] type \in {"payment.succeeded", "payment.completed"}
              -> handlePaymentCompleted(data)
         [] type = "payment.failed" -> handlePaymentFailed(data)
         [] OTHER -> WebhookDone /\ UNCHANGED ledgerVars
    /\ UNCHANGED webhookFrame

\* the ledger applies a webhook update of current_credits by row id
WebhookUpdate(next) ==
    LET old == user_subscriptions
        new == [old EXCEPT !.current_credits = whLocal.newBalance]
    IN /\ user_subscriptions' = new
       /\ channel' = Publish(new)
       /\ whPc' = next
       /\ whLocal' = [whLocal EXCEPT !.before = old.current_credits,
                                     !.after = new.current_credits]

handleSubscriptionCreatedLog ==
    /\ whPc = "created_log"
    /\ credit_transactions' =
         Append(credit_transactions,
                Credit("subscription_credit", whLocal.credits, whLocal.newBalance,
                       whLocal.payment_id, whLocal.before, whLocal.after))
    /\ WebhookDone
    /\ UNCHANGED <<webhookFrame, user_subscriptions, channel, nEvents>>

handleSubscriptionRenewedUpdate ==
    /\ whPc = "renewed_update"
    /\ WebhookUpdate("renewed_log")
    /\ UNCHANGED <<webhookFrame, credit_transactions, nEvents>>

handleSubscriptionRenewedLog ==
    /\ whPc = "renewed_log"
    /\ credit_transactions' =
         Append(credit_transactions,
                Credit("subscription_credit", whLocal.credits, whLocal.newBalance,
                       whLocal.payment_id, whLocal.before, whLocal.after))
    /\ WebhookDone
    /\ UNCHANGED <<webhookFrame, user_subscriptions, channel, nEvents>>

\* the update of the existing row, or the insert of a free-tier row
handlePaymentCompletedWrite ==
    /\ whPc = "payment_write"
    /\ IF whLocal.found
       THEN WebhookUpdate("payment_log")
       ELSE LET old == user_subscriptions
                new == IF old.exists THEN old ELSE FreeRow(whLocal.credits)
            IN /\ user_subscriptions' = new
               /\ whPc' = "payment_log"
               /\ whLocal' = [whLocal EXCEPT !.before = old.current_credits,
                                             !.after = new.current_credits]
               /\ UNCHANGED channel
    /\ UNCHANGED <<webhookFrame, credit_transactions, nEvents>>

handlePaymentCompletedLog ==
    /\ whPc = "payment_log"
    /\ credit_transactions' =
         Append(credit_transactions,
                Credit("purchase", whLocal.credits, whLocal.newBalance,
                       whLocal.payment_id, whLocal.before, whLocal.after))
    /\ WebhookDone
    /\ UNCHANGED <<webhookFrame, user_subscriptions, channel, nEvents>>

\* ------------------------------------------- the generation endpoint's answer
\* The content of an answer is the sequence of its segments: prose, a fence
\* marker (three backquotes), the text of a JSON value, text with braces that
\* is not JSON (an object cut short), and a block of the "Question N:" format.
Prose == [seg |-> "prose"]
Fence == [seg |-> "fence"]
Json(value) == [seg |-> "json", value |-> value]
Truncated(key) ==
    [seg |-> "truncated", value |-> [type |-> "none", key |-> key, list |-> <<>>]]
QuestionBlock(block) == [seg |-> "block", block |-> block]

\* a JSON object with one key holding a list, and a JSON array
Object(key, list) == [type |-> "object", key |-> key, list |-> list]
Array(list) == [type |-> "array", key |-> "", list |-> list]

\* x || y of two strings
Or(x, y) == IF x # "" THEN x ELSE y

\* String.prototype.toUpperCase on the texts an answer puts in its
\* correct-answer field
toUpperCase(s) ==
    CASE s = "a" -> "A"
      [] s = "b" -> "B"
      [] s = "c" -> "C"
      [] s = "d" -> "D"
      [] s = "e" -> "E"
      [] s = "both" -> "BOTH"
      [] OTHER -> s

\* String.prototype.length of the texts a question block holds
length(s) ==
    CASE s = "" -> 0
      [] s = "Why?" -> 4
      [] OTHER -> 40

\* JSON.parse(text.trim()): the text is the text of exactly one JSON value
JSONparse(text) ==
    IF Len(text) = 1 /\ text[1].seg = "json"
    THEN [ok |-> TRUE, value |-> text[1].value]
    ELSE [ok |-> FALSE, value |-> Array(<<>>)]

FenceAt(content) == {i \in 1..Len(content) : content[i].seg = "fence"}
Min(S) == CHOOSE i \in S : \A j \in S : i <= j
Max(S) == CHOOSE i \in S : \A j \in S : i >= j

\* a search that finds no fenced block
FenceMatchNone(text) == [found |-> FALSE, text |-> <<>>]

\* content.match(/```(?:json)?\s*([\s\S]*?)```/): the text between the first
\* fence marker and the one that follows it
FenceMatch(content) ==
    IF Cardinality(FenceAt(content)) < 2
    THEN [found |-> FALSE, text |-> <<>>]
    ELSE LET open == Min(FenceAt(content))
             close == Min(FenceAt(content) \ {open})
         IN [found |-> TRUE, text |-> SubSeq(content, open + 1, close - 1)]

\* the segments that hold braces and those that hold the quoted key
BraceAt(content) ==
    {i \in 1..Len(content) :
        \/ content[i].seg = "truncated"
        \/ content[i].seg = "json" /\ content[i].value.type = "object"}
KeyAt(content, key) ==
    {i \in BraceAt(content) : content[i].value.key = key}

\* content.match(/\{[\s\S]*"key"[\s\S]*\}/): greedy, from the first opening
\* brace to the last closing brace when the quoted key stands between them
ObjectMatch(content, key) ==
    IF KeyAt(content, key) = {}
    THEN [found |-> FALSE, text |-> <<>>]
    ELSE [found |-> TRUE,
          text |-> SubSeq(content, Min(BraceAt(content)), Max(BraceAt(content)))]

\* what a generator returns or throws; stage is the parser stage that
\* produced the questions, tried the stages that were run, in order
Returned(by, tried, questions) ==
    [ok |-> TRUE, stage |-> by, tried |-> tried, mcqs |-> questions,
     message |-> ""]
Thrown(tried, message) ==
    [ok |-> FALSE, stage |-> 0, tried |-> tried, mcqs |-> <<>>, message |-> message]

\* ---------------------------------- PDFGeneratorScreen: parseMCQResponse
\* correctMatch ? correctMatch[1].toUpperCase() : 'A' for the text that follows
\* "Correct Answer:" in a block
CorrectMatch(correct) ==
    IF toUpperCase(correct) \in {"A", "B", "C", "D"}
    THEN toUpperCase(correct)
    ELSE "A"

\* the blocks the loop skips (continue)
Skipped(b) ==
    \/ b.length < 50
    \/ b.question = "" \/ length(b.question) < 10
    \/ b.optionA = "" \/ b.optionB = "" \/ b.optionC = "" \/ b.optionD = ""

\* mcqs.push({id: questionNum, ...})
PushedQuestion(b) ==
    [id |-> b.questionNum,
     question |-> b.question,
     optionA |-> b.optionA, optionB |-> b.optionB,
     optionC |-> b.optionC, optionD |-> b.optionD,
     correctAnswer |-> CorrectMatch(b.correct),
     explanation |-> Or(b.explanation, "The correct answer is.")]

RECURSIVE parseMCQResponse(_)
parseMCQResponse(content) ==
    IF content = <<>>
    THEN <<>>
    ELSE LET part == Head(content)
             rest == parseMCQResponse(Tail(content))
         IN IF part.seg = "block" /\ ~Skipped(part.block)
            THEN <<PushedQuestion(part.block)>> \o rest
            ELSE rest

\* ------------------------------- PDFGeneratorScreen: generateMCQsFromPDF
\* one element of parsed.mcqs.map((m, i) => ...)
MappedMcq(m, i) ==
    [id |-> i,
     question |-> Or(m.question, ""),
     optionA |-> Or(Or(m.optionA, m.option_a), ""),
     optionB |-> Or(Or(m.optionB, m.option_b), ""),
     optionC |-> Or(Or(m.optionC, m.option_c), ""),
     optionD |-> Or(Or(m.optionD, m.option_d), ""),
     correctAnswer |-> toUpperCase(Or(Or(m.correctAnswer, m.correct_answer), "A")),
     explanation |-> Or(m.explanation, "")]

\* parsed?.mcqs
ParsedList(parsed, key) ==
    IF parsed.type = "object" /\ parsed.key = key THEN parsed.list ELSE <<>>

\* the check of parsed.mcqs.length and the map, for the stage that parsed
MappedMcqs(by, tried, parsed) ==
    LET list == ParsedList(parsed, "mcqs") IN
    IF Len(list) = 0
    THEN Thrown(tried, "No MCQs in response")
    ELSE Returned(by, tried, [i \in 1..Len(list) |-> MappedMcq(list[i], i)])

\* generateMCQsFromPDF from the content of the answer on
generateMCQsFromPDF(content) ==
    LET whole == JSONparse(content)
        match == FenceMatch(content)
        objMatch == ObjectMatch(content, "mcqs")
    IN  IF whole.ok
        THEN MappedMcqs(1, <<1>>, whole.value)
        ELSE IF match.found
        THEN IF JSONparse(match.text).ok
             THEN MappedMcqs(2, <<1, 2>>, JSONparse(match.text).value)
             ELSE Thrown(<<1, 2>>, "SyntaxError")
        ELSE IF objMatch.found
        THEN IF JSONparse(objMatch.text).ok
             THEN MappedMcqs(3, <<1, 2, 3>>, JSONparse(objMatch.text).value)
             ELSE Thrown(<<1, 2, 3>>, "SyntaxError")
        ELSE Returned(4, <<1, 2, 3, 4>>, parseMCQResponse(content))

\* ------------------------------------- AIMCQGeneratorScreen: generateMCQs
\* opts[i]?.isCorrect and opts[i]?.text
IsCorrect(opts, i) == i <= Len(opts) /\ opts[i].isCorrect
OptionText(opts, i) == IF i <= Len(opts) THEN opts[i].text ELSE ""

\* let correct = 'A'; if (opts[1]?.isCorrect) ...; if (opts[2]...; if (opts[3]...
CorrectOption(opts) ==
    IF IsCorrect(opts, 4) THEN "D"
    ELSE IF IsCorrect(opts, 3) THEN "C"
    ELSE IF IsCorrect(opts, 2) THEN "B"
    ELSE "A"

\* one element of parsed.questions.map((q, i) => ...)
MappedQuestion(q, i) ==
    [id |-> i,
     question |-> Or(q.question, ""),
     optionA |-> Or(OptionText(q.options, 1), ""),
     optionB |-> Or(OptionText(q.options, 2), ""),
     optionC |-> Or(OptionText(q.options, 3), ""),
     optionD |-> Or(OptionText(q.options, 4), ""),
     correctAnswer |-> CorrectOption(q.options),
     explanation |-> Or(q.explanation, "")]

MappedQuestions(by, tried, parsed) ==
    LET list == ParsedList(parsed, "questions") IN
    IF Len(list) = 0
    THEN Thrown(tried, "No questions in response")
    ELSE Returned(by, tried, [i \in 1..Len(list) |-> MappedQuestion(list[i], i)])

\* generateMCQs from the content of the answer on
generateMCQs(content) ==
    LET whole == JSONparse(content)
        match == FenceMatch(content)
        objMatch == ObjectMatch(content, "questions")
    IN  IF whole.ok
        THEN MappedQuestions(1, <<1>>, whole.value)
        ELSE IF match.found
        THEN IF JSONparse(match.text).ok
             THEN MappedQuestions(2, <<1, 2>>, JSONparse(match.text).value)
             ELSE Thrown(<<1, 2>>, "SyntaxError")
        ELSE IF objMatch.found
        THEN IF JSONparse(objMatch.text).ok
             THEN MappedQuestions(3, <<1, 2, 3>>, JSONparse(objMatch.text).value)
             ELSE Thrown(<<1, 2, 3>>, "SyntaxError")
        ELSE Thrown(<<1, 2, 3>>, "Could not parse response")

\* ------------------------------------------------ answers of the endpoint
\* the texts of two questions and of the four options of an entry
Question1 == "Which river is the longest?"
Question2 == "Which article abolishes untouchability?"

\* an entry in the shape the PDF prompt asks for
McqEntry(question, optionC, correctAnswer) ==
    [question |-> question,
     optionA |-> "first", optionB |-> "second",
     optionC |-> optionC, optionD |-> "fourth",
     option_a |-> "", option_b |-> "", option_c |-> "", option_d |-> "",
     correctAnswer |-> correctAnswer, correct_answer |-> "",
     explanation |-> "because"]

\* the same entry with snake_case keys
SnakeEntry(question, option_c, correct_answer) ==
    [question |-> question,
     optionA |-> "", optionB |-> "", optionC |-> "", optionD |-> "",
     option_a |-> "first", option_b |-> "second",
     option_c |-> option_c, option_d |-> "fourth",
     correctAnswer |-> "", correct_answer |-> correct_answer,
     explanation |-> "because"]

\* an entry in the shape the AI prompt asks for: the first n options, each
\* with its isCorrect flag
OptionTexts == <<"first", "second", "third", "fourth">>
Options(flags, n) ==
    [i \in 1..n |-> [text |-> OptionTexts[i], isCorrect |-> flags[i]]]
QuestionEntry(question, options) ==
    [question |-> question, options |-> options, explanation |-> "because"]

\* a block of the text format
TextBlock(questionNum, question, optionC, correct) ==
    [questionNum |-> questionNum, length |-> 120, question |-> question,
     optionA |-> "first", optionB |-> "second",
     optionC |-> optionC, optionD |-> "fourth",
     correct |-> correct, explanation |-> "because"]

\* what the endpoint answers the screens with: a well-formed answer, an
\* answer whose only entry lacks an option, and prose
PdfAnswers ==
    {<<Json(Object("mcqs", <<McqEntry(Question1, "third", "B")>>))>>,
     <<Json(Object("mcqs", <<McqEntry(Question2, "", "B")>>))>>,
     <<Prose>>}
AiAnswers ==
    {<<Json(Object("questions",
                   <<QuestionEntry(Question1,
                                   Options(<<FALSE, TRUE, FALSE, FALSE>>, 4))>>))>>,
     <<Json(Object("questions",
                   <<QuestionEntry(Question2,
                                   Options(<<FALSE, TRUE, FALSE, FALSE>>, 2))>>))>>,
     <<Prose>>}

\* ------------------------------------------- PDFGeneratorScreen: startProcess
Invocation(at, debit, requests) ==
    [at |-> at, debit |-> debit, requests |-> requests,
     generated |-> <<>>, cancelled |-> "no"]

DebitOutcome(success) == IF success THEN "ok" ELSE "failed"

\* the invocations of a screen that are in flight: slot 0 is the one started
\* last, the slots from 1 on hold those the user has reset away
Slots(d) == 0..Len(late[d])
InFlight(d, i) == IF i = 0 THEN proc[d] ELSE late[d][i]
Remove(s, i) == SubSeq(s, 1, i - 1) \o SubSeq(s, i + 1, Len(s))

\* the invocation in slot i goes on as inv; one that was reset away and has
\* run to its end is forgotten
Resume(d, i, inv) ==
    /\ proc' = IF i = 0 THEN [proc EXCEPT ![d] = inv] ELSE proc
    /\ late' = IF i = 0 THEN late
               ELSE [late EXCEPT ![d] =
                       IF inv.at = "idle" THEN Remove(@, i)
                       ELSE [@ EXCEPT ![i] = inv]]

\* const isLoading = [...].includes(stage)
StageIsLoading == stage \in {"picking", "reading", "ocr", "generating", "parsing"}

\* the local storage of the device (utils/pdfMCQStorage, utils/aiMCQStorage):
\* a saved session holds the questions of one generation
Session(d, questions) == [screen |-> d, mcqs |-> questions]

\* the answers of a session: question id -> option, "" where none is chosen
QuestionIds == 1..MaxQuestions
NoAnswers == [id \in QuestionIds |-> ""]

\* useState<...Session | null>(null), and a session as the storage creates it
NoSession == [exists |-> FALSE, userAnswers |-> NoAnswers]
NewSession == [exists |-> TRUE, userAnswers |-> NoAnswers]

\* updateSessionAnswer(session, index, answer) of utils/aiMCQStorage
updateSessionAnswer(session, index, answer) ==
    [session EXCEPT !.userAnswers[index + 1] = answer]

\* the fields startProcess hands to savePDFMCQSession
SavedMcq(mcq) ==
    [question |-> mcq.question,
     optionA |-> mcq.optionA, optionB |-> mcq.optionB,
     optionC |-> mcq.optionC, optionD |-> mcq.optionD,
     correctAnswer |-> mcq.correctAnswer,
     explanation |-> mcq.explanation]

savePDFMCQSession(d, generatedMcqs) ==
    Session(d, [idx \in 1..Len(generatedMcqs) |-> SavedMcq(generatedMcqs[idx])])

\* createMCQSession followed by saveMCQSession
saveMCQSession(d, questions) == Session(d, questions)

\* the gate and the call of deductCredits('pdf_mcq')
startProcess(d) ==
    /\ d = PdfScreen
    /\ proc[d].at = "idle"
    /\ stage \in {"idle", "complete", "error"}
    /\ IF ~hasEnoughCredits(d, "pdf_mcq")
       THEN /\ proc' = [proc EXCEPT ![d] = NoProc]
            /\ UNCHANGED procVars
       ELSE /\ useCreditsCall(d, "pdf_mcq")
            /\ proc' = [proc EXCEPT ![d] = Invocation("deducting", "pending", 0)]
    /\ UNCHANGED <<screenFrame, stage, isLoading, viewVars, answerVars>>

\* a screen that goes on whatever deductCredits returned
startProcessUnchecked(success) == "picking"

\* if (!success) return; otherwise the file picker is next
startProcessNext(success) == IF success THEN "picking" ELSE "idle"

\* deductCredits has returned; the state of the last run is reset
startProcessDeducted(d) ==
    /\ d = PdfScreen
    /\ Resuming(d)
    /\ LET next == startProcessNext(result[d].success) IN
       /\ proc' = [proc EXCEPT ![d] =
                      Invocation(next, DebitOutcome(result[d].success), 0)]
       /\ stage' = IF next = "picking" THEN "picking" ELSE stage
       /\ mcqs' = IF next = "picking" THEN [mcqs EXCEPT ![d] = <<>>] ELSE mcqs
       /\ errorMessage' = IF next = "picking"
                          THEN [errorMessage EXCEPT ![d] = ""]
                          ELSE errorMessage
       /\ selectedAnswers' = IF next = "picking"
                             THEN [selectedAnswers EXCEPT ![d] = NoAnswers]
                             ELSE selectedAnswers
       /\ showResults' = IF next = "picking"
                         THEN [showResults EXCEPT ![d] = {}]
                         ELSE showResults
    /\ UNCHANGED <<screenFrame, procVars, isLoading, sessions, late,
                   currentSession, persisted, saving>>

\* what no step of an invocation touches besides the cached balance
invocationFrame ==
    <<envVars, whVars, ledgerVars, planType, error, svcVars, parseVars, countVars,
      planVars, keyVars, authVars>>

\* an invocation that gives the cost of the PDF flow back when it ends
\* without questions
EndedRefunding(cached) == cached + CREDIT_COSTS["pdf_mcq"]

\* the early return, the catch block and handleReset call nothing of the
\* hook: the cached balance of an invocation that ends stays what it is
Ended(cached) == cached

\* pickFile has returned
startProcessPicked(d) ==
    /\ d = PdfScreen
    /\ \E i \in Slots(d), outcome \in {"canceled", "failed", "too_large", "ok"} :
        /\ InFlight(d, i).at = "picking"
        /\ stage' = CASE outcome = "canceled" -> "idle"
                      [] outcome = "ok" -> "reading"
                      [] OTHER -> "error"
        /\ errorMessage' = CASE outcome = "failed" ->
                                  [errorMessage EXCEPT ![d] = "Failed to select file"]
                             [] outcome = "too_large" ->
                                  [errorMessage EXCEPT ![d] = "File too large"]
                             [] OTHER -> errorMessage
        /\ Resume(d, i, [InFlight(d, i) EXCEPT
                            !.at = IF outcome = "ok" THEN "reading" ELSE "idle"])
        /\ credits' = IF outcome = "ok" THEN credits
                      ELSE [credits EXCEPT ![d] = Ended(@)]
    /\ UNCHANGED <<invocationFrame, procVars, isLoading, mcqs, sessions, answerVars>>

\* readFileAsBase64 has returned; generateMCQsFromPDF sends its request
startProcessRead(d) ==
    /\ d = PdfScreen
    /\ \E i \in Slots(d), outcome \in {"ok", "empty", "throw"} :
        /\ InFlight(d, i).at = "reading"
        /\ IF outcome = "ok"
           THEN /\ stage' = "generating"
                /\ Resume(d, i, [InFlight(d, i) EXCEPT !.at = "generating",
                                                        !.requests = @ + 1])
                /\ UNCHANGED <<errorMessage, credits>>
           ELSE /\ stage' = "error"
                /\ Resume(d, i, [InFlight(d, i) EXCEPT !.at = "idle"])
                /\ errorMessage' =
                       [errorMessage EXCEPT ![d] = "Failed to read file"]
                /\ credits' = [credits EXCEPT ![d] = Ended(@)]
    /\ UNCHANGED <<invocationFrame, procVars, isLoading, mcqs, sessions, answerVars>>

\* what the await of a generator resolves to: the parse of the answer, or
\* the error of a request that failed
Generated(outcome, parse) ==
    IF outcome = "answer" THEN parse ELSE Thrown(<<>>, "API Error")

\* generateMCQsFromPDF has returned or thrown
startProcessGenerated(d) ==
    /\ d = PdfScreen
    /\ \E i \in Slots(d), outcome \in {"answer", "throw"}, content \in PdfAnswers :
        /\ InFlight(d, i).at = "generating"
        /\ LET generatedMcqs == Generated(outcome, generateMCQsFromPDF(content)) IN
           IF generatedMcqs.ok /\ Len(generatedMcqs.mcqs) # 0
           THEN /\ mcqs' = [mcqs EXCEPT ![d] = generatedMcqs.mcqs]
                /\ stage' = "complete"
                /\ Resume(d, i, [InFlight(d, i) EXCEPT
                                    !.at = "saving",
                                    !.generated = generatedMcqs.mcqs])
                /\ UNCHANGED <<errorMessage, credits>>
           ELSE /\ stage' = "error"
                /\ errorMessage' =
                       [errorMessage EXCEPT ![d] =
                           IF generatedMcqs.ok THEN "Could not generate MCQs"
                           ELSE generatedMcqs.message]
                /\ Resume(d, i, [InFlight(d, i) EXCEPT !.at = "idle"])
                /\ credits' = [credits EXCEPT ![d] = Ended(@)]
                /\ UNCHANGED mcqs
    /\ UNCHANGED <<invocationFrame, procVars, isLoading, sessions, answerVars>>

\* a screen that takes a failed save for a failed invocation
StageAfterSaveFailing(outcome, current) ==
    IF outcome = "throw" THEN "error" ELSE current

\* catch (saveError) { console.warn(...) }: the stage stays as it is
StageAfterSave(outcome, current) == current

\* savePDFMCQSession has returned or thrown (a throw is only logged); either
\* way the alert follows
startProcessSaved(d) ==
    /\ d = PdfScreen
    /\ \E i \in Slots(d), outcome \in {"ok", "throw"} :
        /\ InFlight(d, i).at = "saving"
        /\ sessions' = IF outcome = "ok"
                       THEN Append(sessions,
                                   savePDFMCQSession(d, InFlight(d, i).generated))
                       ELSE sessions
        /\ stage' = StageAfterSave(outcome, stage)
        /\ currentSession' = IF outcome = "ok"
                             THEN [currentSession EXCEPT ![d] = NewSession]
                             ELSE currentSession
        /\ persisted' = IF outcome = "ok"
                        THEN [persisted EXCEPT ![d] = NewSession]
                        ELSE persisted
        /\ Resume(d, i, [InFlight(d, i) EXCEPT !.at = "idle", !.generated = <<>>])
    /\ UNCHANGED <<screenFrame, procVars, isLoading, mcqs, errorMessage,
                   selectedAnswers, showResults, saving>>

\* PDFGeneratorScreen: Cancel on the loading screen, Reset on the result
\* screen; the invocation that is under way is not told.
\* AIMCQGeneratorScreen: Reset on the result screen
handleReset(d) ==
    /\ IF d = PdfScreen
       THEN /\ StageIsLoading \/ mcqs[d] # <<>>
            /\ stage' = "idle"
            /\ IF proc[d].at \in {"picking", "reading", "generating", "saving"}
               THEN /\ late' = [late EXCEPT ![d] =
                                  Append(@, [proc[d] EXCEPT !.cancelled = proc[d].at])]
                    /\ proc' = [proc EXCEPT ![d] = NoProc]
               ELSE UNCHANGED <<proc, late>>
            /\ credits' = [credits EXCEPT ![d] = Ended(@)]
            /\ UNCHANGED <<isLoading, currentSession>>
       ELSE /\ d = AiScreen
            /\ mcqs[d] # <<>> /\ ~isLoading
            /\ currentSession' = [currentSession EXCEPT ![d] = NoSession]
            /\ UNCHANGED <<stage, isLoading, proc, late, credits>>
    /\ mcqs' = [mcqs EXCEPT ![d] = <<>>]
    /\ selectedAnswers' = [selectedAnswers EXCEPT ![d] = NoAnswers]
    /\ showResults' = [showResults EXCEPT ![d] = {}]
    /\ errorMessage' = [errorMessage EXCEPT ![d] = ""]
    /\ UNCHANGED <<invocationFrame, procVars, sessions, persisted, saving>>

\* ----------------------------------------- AIMCQGeneratorScreen: handleGenerate
\* useAIFeature('mcq_generator').canUse
canUse(d) == hasEnoughCredits(d, "mcq_generator")

\* executeWithCredits debits the feature's cost and runs the callback only
\* after the debit has succeeded
executeWithCredits(success) == IF success THEN "generating" ELSE "idle"

\* the gate and the call of executeWithCredits
handleGenerate(d) ==
    /\ d = AiScreen
    /\ proc[d].at = "idle"
    /\ ~isLoading /\ mcqs[d] = <<>>
    /\ IF ~canUse(d)
       THEN /\ proc' = [proc EXCEPT ![d] = NoProc]
            /\ UNCHANGED procVars
       ELSE /\ useCreditsCall(d, "mcq_generator")
            /\ proc' = [proc EXCEPT ![d] = Invocation("deducting", "pending", 0)]
    /\ UNCHANGED <<screenFrame, stage, isLoading, viewVars, answerVars>>

\* the debit has returned; the callback sets isLoading, clears the last run
\* and generateMCQs sends its request
executeWithCreditsDeducted(d) ==
    /\ d = AiScreen
    /\ Resuming(d)
    /\ LET next == executeWithCredits(result[d].success) IN
       /\ proc' = [proc EXCEPT ![d] =
                      Invocation(next, DebitOutcome(result[d].success),
                                 IF next = "generating" THEN 1 ELSE 0)]
       /\ isLoading' = (next = "generating")
       /\ mcqs' = IF next = "generating" THEN [mcqs EXCEPT ![d] = <<>>] ELSE mcqs
       /\ errorMessage' = IF next = "generating"
                          THEN [errorMessage EXCEPT ![d] = ""]
                          ELSE errorMessage
       /\ selectedAnswers' = IF next = "generating"
                             THEN [selectedAnswers EXCEPT ![d] = NoAnswers]
                             ELSE selectedAnswers
       /\ showResults' = IF next = "generating"
                         THEN [showResults EXCEPT ![d] = {}]
                         ELSE showResults
       /\ currentSession' = IF next = "generating"
                            THEN [currentSession EXCEPT ![d] = NoSession]
                            ELSE currentSession
    /\ UNCHANGED <<screenFrame, procVars, stage, sessions, late, persisted, saving>>

\* generateMCQs has returned or thrown; a result is shown and its session is
\* handed to the storage, an error is shown and finally runs
handleGenerateReturned(d) ==
    /\ d = AiScreen
    /\ proc[d].at = "generating"
    /\ \E outcome \in {"answer", "throw"}, content \in AiAnswers :
        LET returned == Generated(outcome, generateMCQs(content)) IN
        IF returned.ok /\ Len(returned.mcqs) # 0
        THEN /\ mcqs' = [mcqs EXCEPT ![d] = returned.mcqs]
             /\ proc' = [proc EXCEPT ![d].at = "saving",
                                     ![d].generated = returned.mcqs]
             /\ UNCHANGED <<errorMessage, isLoading>>
        ELSE /\ errorMessage' =
                    [errorMessage EXCEPT ![d] =
                        IF returned.ok THEN "No MCQs generated"
                        ELSE returned.message]
             /\ isLoading' = FALSE
             /\ proc' = [proc EXCEPT ![d].at = "idle"]
             /\ UNCHANGED mcqs
    /\ UNCHANGED <<screenFrame, procVars, stage, sessions, late, answerVars>>

\* saveMCQSession has returned or thrown inside the same try block: a throw
\* is caught as a failed generation; finally runs
handleGenerateSaved(d) ==
    /\ d = AiScreen
    /\ proc[d].at = "saving"
    /\ \E outcome \in {"ok", "throw"} :
        /\ sessions' = IF outcome = "ok"
                       THEN Append(sessions, saveMCQSession(d, proc[d].generated))
                       ELSE sessions
        /\ errorMessage' = IF outcome = "ok" THEN errorMessage
                           ELSE [errorMessage EXCEPT ![d] = "Failed to save"]
        /\ currentSession' = IF outcome = "ok"
                             THEN [currentSession EXCEPT ![d] = NewSession]
                             ELSE currentSession
        /\ persisted' = IF outcome = "ok"
                        THEN [persisted EXCEPT ![d] = NewSession]
                        ELSE persisted
    /\ isLoading' = FALSE
    /\ proc' = [proc EXCEPT ![d].at = "idle", ![d].generated = <<>>]
    /\ UNCHANGED <<screenFrame, procVars, stage, mcqs, late, selectedAnswers,
                   showResults, saving>>

\* ---------------------------------------------------- answering a question
\* the ids of the questions a screen shows and the options of a question
ShownIds(d) == {mcqs[d][i].id : i \in DOMAIN mcqs[d]}
OptionLetters == {"A", "B"}

\* PDFGeneratorScreen: the user taps an option of a question that is shown
handleOptionSelect(d, mcqId, option) ==
    /\ d = PdfScreen
    /\ mcqId \in ShownIds(d)
    /\ mcqId \notin showResults[d]
    /\ selectedAnswers' = [selectedAnswers EXCEPT ![d][mcqId] = option]
    /\ showResults' = [showResults EXCEPT ![d] = @ \cup {mcqId}]
    /\ UNCHANGED <<screenFrame, procVars, screenVars, viewVars, currentSession,
                   persisted, saving>>

\* AIMCQGeneratorScreen: the user taps an option; the session the screen
\* holds, with the answer put in, is handed to the storage
handleSelectAnswer(d, id, opt) ==
    /\ d = AiScreen
    /\ ~isLoading
    /\ id \in ShownIds(d)
    /\ id \notin showResults[d]
    /\ selectedAnswers' = [selectedAnswers EXCEPT ![d][id] = opt]
    /\ showResults' = [showResults EXCEPT ![d] = @ \cup {id}]
    /\ saving' = IF currentSession[d].exists
                 THEN [saving EXCEPT ![d] =
                         Append(@, updateSessionAnswer(currentSession[d], id - 1, opt))]
                 ELSE saving
    /\ UNCHANGED <<screenFrame, procVars, screenVars, viewVars, currentSession,
                   persisted>>

\* await saveMCQSession(updated) has returned or thrown;
\* setCurrentSession(updated) follows a save that returned
handleSelectAnswerSaved(d) ==
    /\ d = AiScreen
    /\ saving[d] # <<>>
    /\ \E outcome \in {"ok", "throw"} :
        /\ persisted' = IF outcome = "ok"
                        THEN [persisted EXCEPT ![d] = Head(saving[d])]
                        ELSE persisted
        /\ currentSession' = IF outcome = "ok"
                             THEN [currentSession EXCEPT ![d] = Head(saving[d])]
                             ELSE currentSession
    /\ saving' = [saving EXCEPT ![d] = Tail(@)]
    /\ UNCHANGED <<screenFrame, procVars, screenVars, viewVars, selectedAnswers,
                   showResults>>

\* no answer is being parsed on its own
NotGenerated ==
    [ok |-> FALSE, stage |-> 0, tried |-> <<>>, mcqs |-> <<>>,
     message |-> "pending"]
NoAnswer ==
    /\ generator = "none"
    /\ response = <<>>
    /\ generated = NotGenerated

\* useState('10') of both count fields; no count has been computed
DefaultCount == <<"1", "0">>
NoCount == [screen |-> "none", n |-> 0]
DefaultCounts ==
    /\ mcqCount = DefaultCount
    /\ questionCount = DefaultCount
    /\ count = NoCount

\* no subscription event is being priced on its own
NoEvent == [type |-> "none", product_id |-> Null, plan_type |-> Null]
NotGranted == [by |-> "none", plan_type |-> Null, credits |-> 0]
NoGrant ==
    /\ planEvent = NoEvent
    /\ grant = NotGranted

\* no event is being stored and no request is being authenticated on its own
NoIdentity ==
    [user |-> [id |-> Null, email |-> Null],
     data |-> [type |-> "none", customer_email |-> Null, customer_id |-> Null],
     users |-> Null]
NotKeyed == [by |-> "none", stored |-> FALSE, user_id |-> Null]
NoKey ==
    /\ identity = NoIdentity
    /\ keyed = NotKeyed
NoRequest == [host |-> Null, authorization |-> Null, cookie |-> Null]
NotVerified == [returned |-> FALSE, user |-> Null, role |-> Null]
NoAuth ==
    /\ request = NoRequest
    /\ authUser = NotVerified

InitRows ==
    {NoRow} \cup {FreeRow(n) : n \in InitCredits} \cup {PlanRow("basic", 5)}

\* the state after the hooks are constructed and before their first fetch
InitDevices ==
    /\ isDev \in BOOLEAN
    /\ credit_transactions = <<>>
    /\ channel = [d \in Hooks |-> <<>>]
    /\ credits = [d \in Hooks |-> getDevCredits]
    /\ planType = [d \in Hooks |-> IF canBypassCredits THEN "pro" ELSE "free"]
    /\ error = [d \in Hooks |-> FALSE]
    /\ svcCredits = [d \in Callers |-> 0]
    /\ svcPlanType = [d \in Callers |-> "free"]
    /\ pc = [d \in Clients |-> "idle"]
    /\ local = [d \in Clients |-> NoLocal]
    /\ result = [d \in Clients |-> NoResult]
    /\ whPc = "idle"
    /\ whLocal = NoWork
    /\ stage = "idle"
    /\ isLoading = FALSE
    /\ proc = [d \in Hooks |-> NoProc]
    /\ mcqs = [d \in Hooks |-> <<>>]
    /\ errorMessage = [d \in Hooks |-> ""]
    /\ sessions = <<>>
    /\ late = [d \in Hooks |-> <<>>]
    /\ selectedAnswers = [d \in Hooks |-> NoAnswers]
    /\ showResults = [d \in Hooks |-> {}]
    /\ currentSession = [d \in Hooks |-> NoSession]
    /\ persisted = [d \in Hooks |-> NoSession]
    /\ saving = [d \in Hooks |-> <<>>]

InitClients ==
    /\ user_subscriptions \in InitRows
    /\ InitDevices

\* two hook instances and a caller of the billing service share the account
Init ==
    /\ InitClients
    /\ NoAnswer
    /\ DefaultCounts
    /\ NoGrant
    /\ NoKey
    /\ NoAuth
    /\ user \in [Clients -> {NoUser, TheUser}]
    /\ user["h1"] = NoUser => user["h2"] = NoUser
    /\ nDebits = MaxDebits
    /\ nFetches = MaxFetches
    /\ nEvents = 0

HookStep(d) ==
    \/ fetchCredits(d)
    \/ fetchCreditsReturn(d)
    \/ \E f \in FeatureInputs : useCredits(d, f)
    \/ useCreditsUpdate(d)
    \/ useCreditsLog(d)
    \/ realtimeUpdate(d)

CallerStep(d) ==
    \/ \E f \in FeatureInputs : hasCredits(d, f)
    \/ hasCreditsReturn(d)
    \/ \E f \in FeatureInputs : consumeCredits(d, f)
    \/ consumeCreditsCheck(d)
    \/ consumeCreditsDeduct(d)

WebhookStep ==
    \/ \E type \in EventTypes, data \in EventData : serve(type, data)
    \/ handleSubscriptionCreatedLog
    \/ handleSubscriptionRenewedUpdate
    \/ handleSubscriptionRenewedLog
    \/ handlePaymentCompletedWrite
    \/ handlePaymentCompletedLog

Next ==
    \/ \E d \in Hooks : HookStep(d)
    \/ \E d \in Callers : CallerStep(d)

Spec == Init /\ [][Next]_vars

\* one hook instance, the caller of the billing service and the webhook
InitLedger ==
    /\ InitClients
    /\ NoAnswer
    /\ DefaultCounts
    /\ NoGrant
    /\ NoKey
    /\ NoAuth
    /\ user \in [Clients -> {NoUser, TheUser}]
    /\ user["h2"] = NoUser
    /\ nDebits = LedgerDebits
    /\ nFetches = LedgerFetches
    /\ nEvents = LedgerEvents

NextLedger ==
    \/ HookStep("h1")
    \/ \E d \in Callers : CallerStep(d)
    \/ WebhookStep

SpecLedger == InitLedger /\ [][NextLedger]_vars

\* the two generator screens, each on its own hook instance
InitGen ==
    /\ InitClients
    /\ NoAnswer
    /\ DefaultCounts
    /\ NoGrant
    /\ NoKey
    /\ NoAuth
    /\ user \in [Clients -> {NoUser, TheUser}]
    /\ user["s1"] = NoUser
    /\ nDebits = GenDebits
    /\ nFetches = GenFetches
    /\ nEvents = 0

ScreenStep(d) ==
    \/ startProcess(d)
    \/ startProcessDeducted(d)
    \/ startProcessPicked(d)
    \/ startProcessRead(d)
    \/ startProcessGenerated(d)
    \/ startProcessSaved(d)
    \/ handleReset(d)
    \/ handleGenerate(d)
    \/ executeWithCreditsDeducted(d)
    \/ handleGenerateReturned(d)
    \/ handleGenerateSaved(d)

NextGen ==
    \/ \E d \in Hooks :
        \/ fetchCredits(d)
        \/ fetchCreditsReturn(d)
        \/ useCreditsUpdate(d)
        \/ useCreditsLog(d)
        \/ realtimeUpdate(d)
    \/ \E d \in Hooks : ScreenStep(d)

SpecGen == InitGen /\ [][NextGen]_vars


\* ------------------------------------------------- the parsers on their own
QuestionInputs == {"", Question1, Question2}
CorrectInputs == {"", "B", "c", "E", "both"}
PdfEntries ==
    {McqEntry(q, c, k) : q \in QuestionInputs, c \in {"", "third"},
                         k \in CorrectInputs}
    \cup {SnakeEntry(Question2, c, "d") : c \in {"", "third"}}
AiEntries ==
    {QuestionEntry(q, Options(flags, n)) :
        q \in QuestionInputs, flags \in [1..4 -> BOOLEAN], n \in {2, 4}}
TextBlocks ==
    {TextBlock(n, q, c, k) : n \in {1, 2, 7}, q \in {"Why?", Question1, Question2},
                             c \in {"", "third"}, k \in {"", "b", "E"}}
    \cup {[TextBlock(1, Question1, "third", "B") EXCEPT !.length = 30]}

\* the sequences over S of at most n elements
Lists(S, n) == UNION {[1..k -> S] : k \in 0..n}

JsonInputs(key, entries) ==
    {Json(Object(key, list)) : list \in Lists(entries, MaxEntries)}
    \cup {Json(Object("data", <<>>)), Json(Array(<<>>))}

\* an answer that is JSON, that wraps it in a fence or in prose, that holds
\* two fenced blocks, an open fence, or two objects
Wrappings(json) ==
    {<<json>>,
     <<Fence, json, Fence>>,
     <<Prose, Fence, json, Fence, Prose>>,
     <<Prose, json, Prose>>,
     <<Fence, Prose, Fence, Prose, Fence, json, Fence>>,
     <<Fence, json>>,
     <<json, Prose, json>>}

\* answers cut short, prose, and answers in the text format
OtherContents(key) ==
    {<<Prose>>,
     <<Fence, Truncated(key), Fence>>,
     <<Prose, Truncated(key)>>}
    \cup {<<Prose>> \o [i \in DOMAIN l |-> QuestionBlock(l[i])] :
              l \in Lists(TextBlocks, MaxBlocks)}
    \cup {<<Fence, Truncated(key), Fence, QuestionBlock(b)>> : b \in TextBlocks}

ExpectedKey(g) == IF g = "pdf" THEN "mcqs" ELSE "questions"

Contents(g) ==
    UNION {Wrappings(json) :
              json \in JsonInputs(ExpectedKey(g),
                                  IF g = "pdf" THEN PdfEntries ELSE AiEntries)}
    \cup OtherContents(ExpectedKey(g))

\* an answer has arrived and is about to be parsed
InitParse ==
    /\ InitClients
    /\ isDev = FALSE
    /\ user_subscriptions = NoRow
    /\ user = [c \in Clients |-> NoUser]
    /\ nDebits = 0
    /\ nFetches = 0
    /\ nEvents = 0
    /\ DefaultCounts
    /\ NoGrant
    /\ NoKey
    /\ NoAuth
    /\ generator \in {"pdf", "ai"}
    /\ response \in Contents(generator)
    /\ generated = NotGenerated

\* generateMCQsFromPDF parses the content of its answer
parsePdfAnswer ==
    /\ generator = "pdf"
    /\ generated = NotGenerated
    /\ generated' = generateMCQsFromPDF(response)
    /\ UNCHANGED <<machineVars, countVars, planVars, keyVars, authVars, generator,
                   response>>

\* generateMCQs parses the content of its answer
parseAiAnswer ==
    /\ generator = "ai"
    /\ generated = NotGenerated
    /\ generated' = generateMCQs(response)
    /\ UNCHANGED <<machineVars, countVars, planVars, keyVars, authVars, generator,
                   response>>

NextParse ==
    \/ parsePdfAnswer
    \/ parseAiAnswer

SpecParse == InitParse /\ [][NextParse]_vars

\* ------------------------------------------------- the requested count
\* the characters a count field may hold and the value of a digit
Digits == {"0", "1", "2", "3", "9"}
Typed == Digits \cup {"-", ".", " "}
DigitValue(c) ==
    CASE c = "0" -> 0 [] c = "1" -> 1 [] c = "2" -> 2 [] c = "3" -> 3
      [] c = "9" -> 9

RECURSIVE SkipSpaces(_)
SkipSpaces(s) ==
    IF s # <<>> /\ Head(s) = " " THEN SkipSpaces(Tail(s)) ELSE s

\* the value of the digits s starts with, after the value acc of those read
RECURSIVE LeadingDigits(_, _)
LeadingDigits(s, acc) ==
    IF s # <<>> /\ Head(s) \in Digits
    THEN LeadingDigits(Tail(s), 10 * acc + DigitValue(Head(s)))
    ELSE acc

\* parseInt(string): leading white space, a sign, then the digits up to the
\* first character that is none; NaN when there is no digit
parseInt(string) ==
    LET s == SkipSpaces(string)
        negative == s # <<>> /\ Head(s) = "-"
        digits == IF negative THEN Tail(s) ELSE s
    IN  IF digits = <<>> \/ Head(digits) \notin Digits
        THEN [nan |-> TRUE, n |-> 0]
        ELSE [nan |-> FALSE,
              n |-> IF negative THEN 0 - LeadingDigits(digits, 0)
                    ELSE LeadingDigits(digits, 0)]

\* parseInt(string) || 10: NaN and 0 are falsy
ParsedOrDefault(string) ==
    IF parseInt(string).nan \/ parseInt(string).n = 0
    THEN 10
    ELSE parseInt(string).n

\* a count that is used as it was typed
Unclamped(high, n) == n

\* Math.min(high, Math.max(1, n))
MinMax(high, n) ==
    LET atLeast == IF n > 1 THEN n ELSE 1
    IN IF atLeast < high THEN atLeast ELSE high

\* startProcess: const count = Math.min(200, Math.max(1, parseInt(mcqCount) || 10))
startProcessCount ==
    /\ count = NoCount
    /\ count' = [screen |-> "pdf", n |-> MinMax(200, ParsedOrDefault(mcqCount))]
    /\ UNCHANGED <<machineVars, parseVars, planVars, keyVars, authVars, mcqCount,
                   questionCount>>

\* handleGenerate: const count = Math.min(30, Math.max(1, parseInt(questionCount) || 10))
handleGenerateCount ==
    /\ count = NoCount
    /\ count' = [screen |-> "ai", n |-> MinMax(30, ParsedOrDefault(questionCount))]
    /\ UNCHANGED <<machineVars, parseVars, planVars, keyVars, authVars, mcqCount,
                   questionCount>>

\* the texts of at most MaxTyped characters
Entered == Lists(Typed, MaxTyped)

\* a screen whose count field holds any text
InitCount ==
    /\ InitClients
    /\ NoAnswer
    /\ isDev = FALSE
    /\ user_subscriptions = NoRow
    /\ user = [c \in Clients |-> NoUser]
    /\ nDebits = 0
    /\ nFetches = 0
    /\ nEvents = 0
    /\ mcqCount \in Entered
    /\ questionCount = mcqCount
    /\ count = NoCount
    /\ NoGrant
    /\ NoKey
    /\ NoAuth

NextCount ==
    \/ startProcessCount
    \/ handleGenerateCount

SpecCount == InitCount /\ [][NextCount]_vars

\* ------------------------------------------------ the webhook on its own
\* accounts that hold purchased credits besides those of InitRows
PurchasedCredits == {300}
WebhookRows == InitRows \cup {FreeRow(n) : n \in PurchasedCredits}

\* no device is signed in; the webhook is sent WebhookEvents events
InitWebhook ==
    /\ user_subscriptions \in WebhookRows
    /\ InitDevices
    /\ NoAnswer
    /\ DefaultCounts
    /\ NoGrant
    /\ NoKey
    /\ NoAuth
    /\ isDev = FALSE
    /\ user = [c \in Clients |-> NoUser]
    /\ nDebits = 0
    /\ nFetches = 0
    /\ nEvents = WebhookEvents

NextWebhook == WebhookStep

SpecWebhook == InitWebhook /\ [][NextWebhook]_vars

\* ------------------------------------------- the credits of a plan tier
\* the plan types a row or the metadata of an event may carry (Null: none)
PlanTypeInputs == {"free", "basic", "pro", "enterprise", Null}
AllProducts ==
    {BasicPlanProduct, ProPlanProduct, Credits50Product, Credits120Product,
     Credits300Product, OtherProduct}
PlanEventTypes ==
    {"subscription.created", "subscription.renewed", "subscription.cancelled",
     "payment.completed"}

\* an event of a subscription has arrived and its credits are to be computed
InitPlan ==
    /\ InitClients
    /\ NoAnswer
    /\ DefaultCounts
    /\ isDev = FALSE
    /\ user_subscriptions = NoRow
    /\ user = [c \in Clients |-> NoUser]
    /\ nDebits = 0
    /\ nFetches = 0
    /\ nEvents = 0
    /\ planEvent \in [type : PlanEventTypes, product_id : AllProducts,
                      plan_type : PlanTypeInputs]
    /\ grant = NotGranted
    /\ NoKey
    /\ NoAuth

Granted(by, plan_type, n) ==
    /\ grant = NotGranted
    /\ grant' = [by |-> by, plan_type |-> plan_type, credits |-> n]
    /\ UNCHANGED <<machineVars, parseVars, countVars, keyVars, authVars, planEvent>>

\* webhook, handleSubscriptionCreated: PLAN_CREDITS[PRODUCT_PLANS[product_id] || 'basic']
subscriptionCreatedCredits ==
    /\ planEvent.type = "subscription.created"
    /\ Granted("handleSubscriptionCreated", SubscribedPlan(planEvent.product_id),
               PLAN_CREDITS[SubscribedPlan(planEvent.product_id)])

\* webhook, handleSubscriptionRenewed: PLAN_CREDITS[subscription.plan_type] || 200
subscriptionRenewedCredits ==
    /\ planEvent.type = "subscription.renewed"
    /\ Granted("handleSubscriptionRenewed", planEvent.plan_type,
               RenewalCredits(planEvent.plan_type))

\* payments service, handleWebhook(event)
handleWebhookCredits ==
    /\ handleWebhook(planEvent.type, planEvent.plan_type).action # "none"
    /\ Granted("handleWebhook", planEvent.plan_type,
               handleWebhook(planEvent.type, planEvent.plan_type).credits)

NextPlan ==
    \/ subscriptionCreatedCredits
    \/ subscriptionRenewedCredits
    \/ handleWebhookCredits

SpecPlan == InitPlan /\ [][NextPlan]_vars

\* ------------------------------------------- the key of the account row
AuthId == "uid_1"
CustomerId == "cus_1"
Email == "user@example.com"

\* x || y of two values that may be undefined
Else(x, y) == IF x # Null THEN x ELSE y

\* useCredits: const identifier = userId || userEmail, the value of
\* .eq('user_id', ...) in fetchCredits and useCredits
ClientUserId(u) == Else(u.id, u.email)

\* handleSubscriptionCreated: users?.id, else data.customer_id || customerEmail
SubscriptionUserId(users, data) ==
    Else(users, Else(data.customer_id, data.customer_email))

\* handlePaymentCompleted: data.customer_id || customerEmail
PurchaseUserId(data) == Else(data.customer_id, data.customer_email)

StoringEventTypes ==
    {"subscription.active", "subscription.created", "payment.succeeded",
     "payment.completed"}

\* a signed-in user and an event of the payment provider about that user;
\* users is what the query on auth.users by the event's email returns: the
\* user's own id, or nothing
InitKey ==
    /\ user_subscriptions = NoRow
    /\ InitDevices
    /\ NoAnswer
    /\ DefaultCounts
    /\ NoGrant
    /\ NoAuth
    /\ isDev = FALSE
    /\ user = [c \in Clients |-> NoUser]
    /\ nDebits = 0
    /\ nFetches = 0
    /\ nEvents = 0
    /\ identity \in [user : [id : {Null, AuthId}, email : {Null, Email}],
                     data : [type : StoringEventTypes,
                             customer_email : {Null, Email},
                             customer_id : {Null, CustomerId}],
                     users : {Null, AuthId}]
    /\ identity.users # Null => identity.data.customer_email # Null
    /\ identity.users # Null => identity.user.id = identity.users
    /\ keyed = NotKeyed

Keyed(by, stored, user_id) ==
    /\ keyed = NotKeyed
    /\ keyed' = [by |-> by, stored |-> stored, user_id |-> user_id]
    /\ UNCHANGED <<machineVars, parseVars, countVars, planVars, authVars, identity>>

\* handleSubscriptionCreated: the user_id of the upsert (none without an email)
subscriptionCreatedKey ==
    /\ identity.data.type \in {"subscription.active", "subscription.created"}
    /\ IF identity.data.customer_email = Null
       THEN Keyed("handleSubscriptionCreated", FALSE, Null)
       ELSE Keyed("handleSubscriptionCreated", TRUE,
                  SubscriptionUserId(identity.users, identity.data))

\* handlePaymentCompleted, for a credit package: the user_id of the select,
\* the insert and the log
paymentCompletedKey ==
    /\ identity.data.type \in {"payment.succeeded", "payment.completed"}
    /\ Keyed("handlePaymentCompleted", TRUE, PurchaseUserId(identity.data))

NextKey ==
    \/ subscriptionCreatedKey
    \/ paymentCompletedKey

SpecKey == InitKey /\ [][NextKey]_vars

\* --------------------------------------------- the admin interface's verifyAuth
\* Host headers, Authorization headers and sb-access-token cookies of a request
Hosts ==
    {"admin.example.com", "localhost:3000", "127.0.0.1:3000", "192.168.1.20",
     "localhost.example.net", Null}
Authorizations == {Null, "Bearer good", "Bearer bad", "Bearer ", "Basic good"}
Cookies == {Null, "good", "bad"}

\* the access tokens supabase.auth.getUser accepts
ValidTokens == {"good"}

\* String.prototype.includes and startsWith on the hosts above
includes(host, part) ==
    CASE part = "localhost" -> host \in {"localhost:3000", "localhost.example.net"}
      [] part = "127.0.0.1" -> host = "127.0.0.1:3000"
      [] OTHER -> FALSE
startsWith(host, prefix) ==
    CASE prefix = "192.168" -> host = "192.168.1.20"
      [] OTHER -> FALSE

\* authHeader?.startsWith('Bearer ') ? authHeader.substring(7) : cookie || null
getTokenFromRequest(req) ==
    CASE req.authorization = "Bearer good" -> "good"
      [] req.authorization = "Bearer bad" -> "bad"
      [] req.authorization = "Bearer " -> ""
      [] OTHER -> req.cookie

\* host.includes('localhost') || host.includes('127.0.0.1') || host.startsWith('192.168')
isDevMode(req) ==
    LET host == IF req.host = Null THEN "" ELSE req.host
    IN includes(host, "localhost") \/ includes(host, "127.0.0.1")
         \/ startsWith(host, "192.168")

Returned0 == [returned |-> TRUE, user |-> Null, role |-> Null]
AdminUser(id, role) == [returned |-> TRUE, user |-> id, role |-> role]

\* verifyToken: null when the environment is incomplete, when getUser gives
\* an error or no user, or when it throws; else the user with
\* user_metadata.role || 'user'
verifyToken(accessToken, outcome, role) ==
    IF outcome = "ok" /\ accessToken \in ValidTokens
    THEN AdminUser(AuthId, Else(role, "user"))
    ELSE Returned0

\* verifyAuth(request)
verifyAuthResult(req, outcome, role) ==
    IF isDevMode(req)
    THEN AdminUser("dev-user", "admin")
    ELSE IF getTokenFromRequest(req) \in {Null, ""}
    THEN Returned0
    ELSE verifyToken(getTokenFromRequest(req), outcome, role)

\* a request has arrived at the admin interface
InitAuth ==
    /\ user_subscriptions = NoRow
    /\ InitDevices
    /\ NoAnswer
    /\ DefaultCounts
    /\ NoGrant
    /\ NoKey
    /\ isDev = FALSE
    /\ user = [c \in Clients |-> NoUser]
    /\ nDebits = 0
    /\ nFetches = 0
    /\ nEvents = 0
    /\ request \in [host : Hosts, authorization : Authorizations, cookie : Cookies]
    /\ authUser = NotVerified

verifyAuth ==
    /\ authUser = NotVerified
    /\ \E outcome \in {"ok", "no_env", "error", "throw"}, role \in {Null, "admin"} :
          authUser' = verifyAuthResult(request, outcome, role)
    /\ UNCHANGED <<machineVars, parseVars, countVars, planVars, keyVars, request>>

NextAuth == verifyAuth

SpecAuth == InitAuth /\ [][NextAuth]_vars

\* ------------------------------------------------- answering a session
\* the questions of a generation of MaxQuestions entries, as each screen's
\* generator returns them
PdfQuestions ==
    generateMCQsFromPDF(
        <<Json(Object("mcqs",
                      [i \in 1..MaxQuestions |-> McqEntry(Question1, "third", "B")]))>>).mcqs
AiQuestions ==
    generateMCQs(
        <<Json(Object("questions",
                      [i \in 1..MaxQuestions |->
                          QuestionEntry(Question2,
                                        Options(<<FALSE, TRUE, FALSE, FALSE>>, 4))]))>>).mcqs

\* both screens of a development build have generated and show their
\* questions; each save of a session has returned or thrown
InitAnswer ==
    /\ isDev = TRUE
    /\ user = [c \in Clients |-> IF c \in Hooks THEN TheUser ELSE NoUser]
    /\ user_subscriptions = NoRow
    /\ credit_transactions = <<>>
    /\ channel = [d \in Hooks |-> <<>>]
    /\ credits = [d \in Hooks |-> getDevCredits]
    /\ planType = [d \in Hooks |-> "pro"]
    /\ error = [d \in Hooks |-> FALSE]
    /\ svcCredits = [d \in Callers |-> 0]
    /\ svcPlanType = [d \in Callers |-> "free"]
    /\ pc = [d \in Clients |-> "idle"]
    /\ local = [d \in Clients |-> NoLocal]
    /\ result = [d \in Clients |->
                    CASE d = PdfScreen ->
                           DebitResult("pdf_mcq", TRUE, "bypass", getDevCredits, 0)
                      [] d = AiScreen ->
                           DebitResult("mcq_generator", TRUE, "bypass", getDevCredits, 0)
                      [] OTHER -> NoResult]
    /\ nDebits = 0
    /\ nFetches = 0
    /\ nEvents = 0
    /\ whPc = "idle"
    /\ whLocal = NoWork
    /\ stage = "complete"
    /\ isLoading = FALSE
    /\ proc = [d \in Hooks |-> Invocation("idle", "ok", 1)]
    /\ mcqs = [d \in Hooks |-> IF d = PdfScreen THEN PdfQuestions ELSE AiQuestions]
    /\ late = [d \in Hooks |-> <<>>]
    /\ selectedAnswers = [d \in Hooks |-> NoAnswers]
    /\ showResults = [d \in Hooks |-> {}]
    /\ saving = [d \in Hooks |-> <<>>]
    /\ \E saved \in [Hooks -> BOOLEAN] :
        /\ currentSession = [d \in Hooks |-> IF saved[d] THEN NewSession ELSE NoSession]
        /\ persisted = currentSession
        /\ sessions =
              (IF saved[PdfScreen] THEN <<savePDFMCQSession(PdfScreen, PdfQuestions)>>
               ELSE <<>>)
              \o (IF saved[AiScreen] THEN <<saveMCQSession(AiScreen, AiQuestions)>>
                  ELSE <<>>)
        /\ errorMessage = [d \in Hooks |->
                              IF d = AiScreen /\ ~saved[d] THEN "Failed to save" ELSE ""]
    /\ NoAnswer
    /\ DefaultCounts
    /\ NoGrant
    /\ NoKey
    /\ NoAuth

NextAnswer ==
    \/ \E mcqId \in QuestionIds, option \in OptionLetters :
           handleOptionSelect(PdfScreen, mcqId, option)
    \/ \E id \in QuestionIds, opt \in OptionLetters :
           handleSelectAnswer(AiScreen, id, opt)
    \/ handleSelectAnswerSaved(AiScreen)
    \/ \E d \in Hooks : handleReset(d)

SpecAnswer == InitAnswer /\ [][NextAnswer]_vars

\* ----------------------------------------------------------------- claims
IsUsage(t) == t.transaction_type = "usage"
IsCredit(t) == t.transaction_type \in {"purchase", "subscription_credit"}

\* C1: after any sequence and interleaving of debits (the hook's deduction,
\* the billing service's deduction) and credits (the webhook's subscription,
\* renewal and purchase handlers) on the account, the ledger balance
\* current_credits is never negative.
BalanceNeverNegative == user_subscriptions.current_credits >= 0

\* a debit and a credit have both been applied and logged, and the balance
\* stands at the boundary
BalanceNeverNegativeWitness ==
    /\ user_subscriptions.current_credits = 0
    /\ \E i \in DOMAIN credit_transactions : IsUsage(credit_transactions[i])
    /\ \E j \in DOMAIN credit_transactions : IsCredit(credit_transactions[j])

\* C2: two debits for the same feature issued concurrently by two devices
\* that hold the same cached balance, against a ledger balance of exactly one
\* charge (both were called while the ledger and the cache held
\* balance = cost): exactly one reports success, the other reports
\* insufficient credits, and the final balance is 0.
ExactlyOneConcurrentDebitSucceeds ==
    \A f \in FeatureInputs :
        ( /\ ~canBypassCredits
          /\ \A h \in Hooks :
               /\ result[h].op = "useCredits"
               /\ result[h].feature = f
               /\ result[h].ledger = CREDIT_COSTS[f]
               /\ result[h].balance = CREDIT_COSTS[f]
               /\ result[h].kind \in {"ok", "InsufficientCredits"} )
        => /\ Cardinality({h \in Hooks : result[h].success}) = 1
           /\ user_subscriptions.current_credits = 0

\* C3: the decrement of a debit is applied to the balance the ledger holds at
\* the moment of the write, not to the client's cached balance: every write of
\* a debit lowers current_credits by exactly the feature's cost (step by step
\* this is the conservation of the balance: initial + credited - debited).
DebitAppliedToLedgerBalance ==
    [][\A d \in Hooks :
          ( /\ pc[d] = "updating"
            /\ pc'[d] = "logging"
            /\ user_subscriptions.exists )
          => user_subscriptions'.current_credits =
                user_subscriptions.current_credits
                    - CREDIT_COSTS[local[d].feature]]_vars

\* C4: a debit attempted when the account's ledger balance is below the
\* feature's cost fails and mutates nothing; in particular it never reports
\* success.
DebitBelowCostFails ==
    \A h \in Hooks :
        ( /\ ~canBypassCredits
          /\ result[h].op = "useCredits"
          /\ result[h].ledger < CREDIT_COSTS[result[h].feature] )
        => ~result[h].success

\* C5: a debit that reports success has lowered the ledger balance by exactly
\* CREDIT_COSTS[f] and has appended exactly one usage transaction with
\* delta -CREDIT_COSTS[f]; success is never reported without that transaction.
SuccessfulDebitChargedAndLogged ==
    [][\A d \in Hooks :
          ( /\ ~canBypassCredits
            /\ pc[d] = "logging"
            /\ pc'[d] = "idle"
            /\ result'[d].success )
          => /\ local[d].after = local[d].before - CREDIT_COSTS[local[d].feature]
             /\ Len(credit_transactions') = Len(credit_transactions) + 1
             /\ IsUsage(credit_transactions'[Len(credit_transactions')])
             /\ credit_transactions'[Len(credit_transactions')].credits =
                  0 - CREDIT_COSTS[local[d].feature]]_vars

\* C6: every record of credit_transactions has balance_after equal to the
\* ledger balance immediately after the change it records, and its credits
\* delta equals that change of the ledger balance.
LogIsRunningTotal ==
    \A i \in DOMAIN credit_transactions :
        LET t == credit_transactions[i] IN
        /\ t.balance_after = t.after
        /\ t.credits = t.after - t.before

\* C7: within one generation invocation the request to the generation
\* endpoint is issued only after the debit has completed successfully; an
\* invocation whose debit failed, or has not returned yet, has issued none.
GenerationOnlyAfterDebit ==
    \A d \in Hooks : proc[d].requests > 0 => proc[d].debit = "ok"

\* the PDF screen has sent its request after a successful debit while the
\* invocation of the other screen, whose debit failed, has sent none
GenerationOnlyAfterDebitWitness ==
    /\ ~canBypassCredits
    /\ proc[PdfScreen].requests = 1
    /\ proc[PdfScreen].debit = "ok"
    /\ proc[AiScreen].debit = "failed"
    /\ proc[AiScreen].requests = 0

\* C8: when bypass mode is active the sufficiency check returns true for
\* every feature whatever the cached or the ledger balance is, and no hook
\* has a request to the ledger outstanding: fetchCredits, hasEnoughCredits and
\* useCredits return before any is issued.
BypassTestedFirst ==
    canBypassCredits =>
        \A h \in Hooks :
            /\ pc[h] \notin HookRequestPcs
            /\ \A f \in FeatureType : hasEnoughCredits(h, f)

\* in bypass mode a debit was called, and returned success, on a hook whose
\* cached balance had fallen below the feature's cost
BypassTestedFirstWitness ==
    /\ canBypassCredits
    /\ \E h \in Hooks :
        /\ result[h].op = "useCredits"
        /\ result[h].kind = "bypass"
        /\ result[h].balance < CREDIT_COSTS[result[h].feature]
        /\ credits[h] < CREDIT_COSTS[result[h].feature]

\* C9: a balance fetch that fails (an error of the ledger or a thrown
\* exception) fails closed: it leaves the hook with balance 0, never with a
\* previously cached positive balance.
FailedFetchFailsClosed ==
    [][\A h \in Hooks :
          ( /\ pc[h] = "fetching"
            /\ pc'[h] = "idle"
            /\ ~result'[h].success )
          => credits'[h] = 0]_vars

\* C10: for an absent identifier the balance query returns a zero balance with
\* plan tier free, raises no error and sends no query to the ledger.
AbsentIdentifierZeroFree ==
    /\ \A h \in Hooks :
        (~canBypassCredits /\ Identifier(h) = NoUser)
        => /\ pc[h] # "fetching"
           /\ result[h].op = "fetchCredits"
              => /\ credits[h] = 0
                 /\ planType[h] = "free"
                 /\ ~error[h]
    /\ \A c \in Callers :
        user[c] = NoUser
        => /\ pc[c] # "svc_checking"
           /\ result[c].op = "hasCredits"
              => /\ svcCredits[c] = 0
                 /\ svcPlanType[c] = "free"

\* a step of an invocation of d's screen that the user cancelled while it
\* was picking, reading or generating
CancelledInvocationStep(d) ==
    \E i \in 1..Len(late[d]) :
        /\ late[d][i].cancelled \in {"picking", "reading", "generating"}
        /\ \/ late'[d] = Remove(late[d], i)
           \/ Len(late'[d]) = Len(late[d]) /\ late'[d][i] # late[d][i]

\* C11: after the user cancels an in-flight invocation (handleReset while
\* picking, reading or generating), the late completion of that invocation
\* changes nothing: no step of the cancelled invocation changes the stage,
\* the question list (empty, or the result of a newer invocation) or the
\* saved sessions.
LateCompletionChangesNothing ==
    [][\A d \in Hooks :
          CancelledInvocationStep(d) =>
              /\ stage' = stage
              /\ mcqs'[d] = mcqs[d]
              /\ sessions' = sessions]_vars

\* the texts between the fence markers of an answer, pair by pair
RECURSIVE FencedBlocks(_)
FencedBlocks(text) ==
    IF Cardinality(FenceAt(text)) < 2
    THEN {}
    ELSE LET open == Min(FenceAt(text))
             close == Min(FenceAt(text) \ {open})
         IN {SubSeq(text, open + 1, close - 1)}
            \cup FencedBlocks(SubSeq(text, close + 1, Len(text)))

\* the first of them
HasFencedBlock(text) == Cardinality(FenceAt(text)) >= 2
FirstFencedBlock(text) ==
    LET open == Min(FenceAt(text))
        close == Min(FenceAt(text) \ {open})
    IN SubSeq(text, open + 1, close - 1)

\* the text is valid JSON of the shape the generator expects
ExpectedShape(text) ==
    /\ JSONparse(text).ok
    /\ Len(ParsedList(JSONparse(text).value, ExpectedKey(generator))) > 0

\* the stages that ran are 1, 2, ... in this order and, when the parser
\* returned, the last of them produced the result
StagesInOrder ==
    /\ generated.tried = [i \in 1..Len(generated.tried) |-> i]
    /\ generated.ok => generated.stage = Len(generated.tried)

ParseFailureOnlyAfterAllStages ==
    generated.message \in {"SyntaxError", "Could not parse response"}
        => generated.tried = <<1, 2, 3, 4>>

\* a question with a question text and four options
ValidQuestion(q) ==
    /\ q.question # ""
    /\ q.optionA # "" /\ q.optionB # "" /\ q.optionC # "" /\ q.optionD # ""

\* C14: every question a generator returns, whichever stage produced it, has
\* a non-empty question text and four non-empty options: an entry that lacks
\* one of them is dropped, not emitted with an empty field.
ReturnedQuestionsAreValid ==
    generated.ok =>
        \A i \in DOMAIN generated.mcqs : ValidQuestion(generated.mcqs[i])

\* C15: the questions a generator returns carry the ids 1..N, each equal to
\* the question's position in the returned sequence, for every stage, the
\* text parser included, also when blocks were dropped or the answer numbered
\* its questions differently.
IdsArePositions ==
    generated.ok =>
        \A i \in DOMAIN generated.mcqs : generated.mcqs[i].id = i

\* the entries of the JSON value an answer holds
JsonAt(text) == {i \in 1..Len(text) : text[i].seg = "json"}
AnswerEntries(text) ==
    IF JsonAt(text) = {} THEN <<>>
    ELSE ParsedList(text[Min(JsonAt(text))].value, ExpectedKey(generator))

\* the letter of the first option whose isCorrect flag is true, A when no
\* flag is true
Letters == <<"A", "B", "C", "D">>
FlaggedAt(opts) == {i \in 1..Len(opts) : i <= 4 /\ opts[i].isCorrect}
FirstFlagged(opts) ==
    IF FlaggedAt(opts) = {} THEN "A" ELSE Letters[Min(FlaggedAt(opts))]

\* C16: when a parsed entry carries an options array with per-option
\* isCorrect flags, correctOption is the letter of the first option whose
\* flag is true, also when more than one flag is true, and A when no flag is
\* true.
FirstTrueFlagWins ==
    (generator = "ai" /\ generated.ok) =>
        \A i \in DOMAIN generated.mcqs :
            generated.mcqs[i].correctAnswer
                = FirstFlagged(AnswerEntries(response)[i].options)

\* C17: every question either generator returns has correctAnswer equal to
\* one of the letters A, B, C, D, so that exactly one of its four options is
\* the correct one, whatever the answer put in its correct-answer field
\* (stated for the questions that have their text and their four options).
CorrectAnswerIsALetter ==
    generated.ok =>
        \A i \in DOMAIN generated.mcqs :
            ValidQuestion(generated.mcqs[i]) =>
                generated.mcqs[i].correctAnswer \in {"A", "B", "C", "D"}

\* C18: an invocation whose parsing yields zero valid questions ends in the
\* error state and writes no session: every session in the local storage
\* holds at least one valid question.
SavedSessionsHoldValidQuestions ==
    \A i \in DOMAIN sessions :
        \E j \in DOMAIN sessions[i].mcqs : ValidQuestion(sessions[i].mcqs[j])

\* the text is a numeral, and the number it writes
IsNumeral(s) == s # <<>> /\ \A i \in DOMAIN s : s[i] \in Digits
RECURSIVE NumeralValue(_)
NumeralValue(s) ==
    IF s = <<>> THEN 0
    ELSE 10 * NumeralValue(SubSeq(s, 1, Len(s) - 1)) + DigitValue(s[Len(s)])

\* the text of the field the count was computed from, and the range of its
\* screen
EnteredCount == IF count.screen = "pdf" THEN mcqCount ELSE questionCount
HighestCount == IF count.screen = "pdf" THEN 200 ELSE 30

\* C19: for every text of the count field (empty, not a number, zero,
\* negative or oversized) the count handed to the generator is inside 1..30
\* for the AI screen and 1..200 for the PDF screen, equals the entered number
\* whenever that number is inside the range, is the upper end for a larger
\* number and 1 for a negative one.
CountIsClamped ==
    count # NoCount =>
        /\ count.n \in 1..HighestCount
        /\ (IsNumeral(EnteredCount) /\ NumeralValue(EnteredCount) \in 1..HighestCount)
               => count.n = NumeralValue(EnteredCount)
        /\ (IsNumeral(EnteredCount) /\ NumeralValue(EnteredCount) > HighestCount)
               => count.n = HighestCount
        /\ (Len(EnteredCount) > 1 /\ Head(EnteredCount) = "-"
               /\ IsNumeral(Tail(EnteredCount))
               /\ NumeralValue(Tail(EnteredCount)) > 0)
               => count.n = 1

\* the AI screen has brought 999 down to 30
CountIsClampedWitness ==
    /\ count = [screen |-> "ai", n |-> 30]
    /\ questionCount = <<"9", "9", "9">>

\* the invocation of d's screen has received its questions and hands them to
\* the storage
GenerationSucceeded(d) ==
    /\ proc[d].at = "generating"
    /\ proc'[d].at = "saving"

\* the save of the invocation of d's screen has failed
SaveFailed(d) ==
    /\ proc[d].at = "saving"
    /\ proc'[d].at = "idle"
    /\ sessions' = sessions
    /\ late' = late

\* C20: if the local save of the session fails after a successful
\* generation, the invocation still ends complete with the generated
\* questions shown and the debit stays applied: the generation has set the
\* stage to complete (on the AI screen: the loading flag is cleared) and the
\* question list to its result, and the failed save changes neither them nor
\* the ledger balance, the cached balance or the transaction log.
FailedSaveKeepsResultAndDebit ==
    [][\A d \in Hooks :
          /\ GenerationSucceeded(d) =>
                /\ mcqs'[d] = proc'[d].generated
                /\ mcqs'[d] # <<>>
                /\ d = PdfScreen => stage' = "complete"
          /\ SaveFailed(d) =>
                /\ mcqs'[d] = mcqs[d]
                /\ mcqs'[d] # <<>>
                /\ stage' = stage
                /\ d = AiScreen => ~isLoading'
                /\ user_subscriptions' = user_subscriptions
                /\ credit_transactions' = credit_transactions
                /\ credits' = credits]_vars

\* the PDF screen has debited the five credits of the account, shows the
\* generated questions in stage complete, and its save has failed: the
\* invocation is over and the storage is empty
FailedSaveKeepsResultAndDebitWitness ==
    /\ ~canBypassCredits
    /\ proc[PdfScreen].at = "idle"
    /\ proc[PdfScreen].debit = "ok"
    /\ proc[PdfScreen].requests = 1
    /\ stage = "complete"
    /\ mcqs[PdfScreen] # <<>>
    /\ sessions = <<>>
    /\ late[PdfScreen] = <<>>
    /\ user_subscriptions.current_credits = 0
    /\ credits[PdfScreen] = 0
    /\ Len(credit_transactions) = 1

\* C21: every answer selection is persisted: whenever a screen shows a saved
\* session and no save of an answer is under way, the answer map of the
\* stored session equals the screen's selected-answer map, in both screens.
AnswersArePersisted ==
    \A d \in Hooks :
        (persisted[d].exists /\ mcqs[d] # <<>> /\ saving[d] = <<>>)
        => persisted[d].userAnswers = selectedAnswers[d]

\* the credits of the plan tiers
TierCredits == [free |-> 0, basic |-> 200, pro |-> 400]

\* C22: the credits granted for a plan tier are a lookup giving 0 for free,
\* 200 for basic and 400 for pro, in the webhook's subscription-created and
\* renewal handlers and in handleWebhook of the payments service: whatever
\* place computed the credits of a subscription created or renewed on a plan
\* of one of the three tiers, they are the credits of that tier.
PlanCreditsAreTierCredits ==
    (grant.by # "none" /\ grant.plan_type \in DOMAIN TierCredits
        /\ planEvent.type \in {"subscription.created", "subscription.renewed"})
    => grant.credits = TierCredits[grant.plan_type]

\* the webhook is handed a subscription.cancelled or subscription.expired event
CancelledEvent ==
    \E type \in {"subscription.cancelled", "subscription.expired"},
       data \in EventData : serve(type, data)

\* C23: a subscription cancelled or expired event changes only the
\* subscription's status: the account's current_credits, plan_type and
\* monthly_credits are left unchanged, the account row is not deleted, and
\* no transaction is logged.
CancellationChangesStatusOnly ==
    [][CancelledEvent =>
          /\ user_subscriptions' \in
                {user_subscriptions, [user_subscriptions EXCEPT !.status = "cancelled"]}
          /\ user_subscriptions.exists => user_subscriptions'.exists
          /\ credit_transactions' = credit_transactions]_vars

\* a subscription with unspent credits has been cancelled and keeps its plan
\* and its balance
CancellationChangesStatusOnlyWitness ==
    /\ user_subscriptions.exists
    /\ user_subscriptions.status = "cancelled"
    /\ user_subscriptions.plan_type = "basic"
    /\ user_subscriptions.monthly_credits = 200
    /\ user_subscriptions.current_credits = 5

\* a block that has a question body and its four lettered options
CompleteBlock(b) ==
    /\ b.question # ""
    /\ b.optionA # "" /\ b.optionB # "" /\ b.optionC # "" /\ b.optionD # ""
CompleteBlocksAt(content) ==
    {i \in DOMAIN content :
        content[i].seg = "block" /\ CompleteBlock(content[i].block)}

\* C24: the text parser emits a question for every "Question N:" block that
\* has a question body and four options, and drops a block only when one of
\* them is missing (never because the block or its question is short, nor
\* for a missing "Correct Answer:" section): an answer parsed by the text
\* parser yields as many questions as it holds such blocks.
TextParserKeepsCompleteBlocks ==
    (generator = "pdf" /\ generated.ok /\ generated.stage = 4)
    => Len(generated.mcqs) = Cardinality(CompleteBlocksAt(response))

\* the one debit of the behaviour was h's, it has succeeded, and every
\* notification sent to h has been delivered
DebitSettled(h) ==
    /\ ~canBypassCredits
    /\ nDebits = MaxDebits - 1
    /\ pc[h] = "idle"
    /\ result[h].op = "useCredits"
    /\ result[h].success
    /\ channel[h] = <<>>

\* C25: after a successful debit through the useCredits hook, once the
\* realtime UPDATE notification for that write has been delivered, in
\* whichever order it arrives relative to the hook's own decrement, the
\* hook's cached credits equals the ledger's current_credits.
CacheEqualsLedgerAfterDebit ==
    \A h \in Hooks :
        DebitSettled(h) => credits[h] = user_subscriptions.current_credits

\* a step that leaves the balance of the account at least as high as it was
BalanceNotLowered ==
    user_subscriptions'.current_credits >= user_subscriptions.current_credits

\* C26: processing a webhook event that grants credits never lowers an
\* account's balance, also for an account that already holds purchased or
\* unspent credits: no write of the webhook's subscription, renewal and
\* purchase handlers leaves current_credits below what it was.
CreditingNeverLowersBalance ==
    [][BalanceNotLowered]_vars

\* C27: a purchase identified by one payment_id is credited to the account at
\* most once, even when the webhook receives more than one event for it: the
\* log holds at most one purchase per payment_id.
PurchaseCreditedOnce ==
    \A p \in PaymentIds :
        Cardinality({i \in DOMAIN credit_transactions :
                        /\ credit_transactions[i].transaction_type = "purchase"
                        /\ credit_transactions[i].dodo_payment_id = p}) <= 1

\* an invocation of d's screen whose debit succeeded ends before it has
\* questions: the picker is cancelled or fails, the file is too large or
\* cannot be read, the generation fails or returns nothing, or the user
\* presses Cancel
EndsWithoutQuestions(d) ==
    \E i \in Slots(d) :
        /\ InFlight(d, i).debit = "ok"
        /\ InFlight(d, i).at \in {"picking", "reading", "generating"}
        /\ \/ i = 0 /\ proc'[d].at = "idle"
           \/ i > 0 /\ late'[d] = Remove(late[d], i)

\* C28: once the PDF flow's debit has succeeded, every way the invocation can
\* end without producing questions leaves the credits deducted: the step
\* that ends it changes neither the ledger balance, nor the transaction log,
\* nor the cached balance.
NoRefundAfterDebit ==
    [][EndsWithoutQuestions(PdfScreen) =>
          /\ user_subscriptions' = user_subscriptions
          /\ credit_transactions' = credit_transactions
          /\ credits' = credits]_vars

\* the PDF screen has debited the five credits of the account and its
\* invocation has ended in an error: ledger and cache hold 0
NoRefundAfterDebitWitness ==
    /\ ~canBypassCredits
    /\ proc[PdfScreen].at = "idle"
    /\ proc[PdfScreen].debit = "ok"
    /\ stage = "error"
    /\ mcqs[PdfScreen] = <<>>
    /\ late[PdfScreen] = <<>>
    /\ user_subscriptions.current_credits = 0
    /\ credits[PdfScreen] = 0
    /\ Len(credit_transactions) = 1
    /\ credit_transactions[1].feature_used = "pdf_mcq"

\* C29: all ledger writes and reads for one user address the same account
\* row: the user_id under which the webhook stores a subscription or a credit
\* purchase is the key the client uses in fetchCredits and useCredits, so
\* that the credits become visible in that user's fetched balance.
WebhookKeyIsClientKey ==
    (keyed.stored /\ ClientUserId(identity.user) # Null)
    => keyed.user_id = ClientUserId(identity.user)

\* the access token a request carries is one that verifyToken accepts
CarriesValidToken(req) ==
    \/ req.authorization = "Bearer good"
    \/ /\ req.authorization \in {Null, "Basic good"}
       /\ req.cookie = "good"

\* C30: verifyAuth returns a non-null user only when the request carries an
\* access token (Bearer authorization header or sb-access-token cookie) that
\* verifyToken accepts; a request without one is never given an identity,
\* whatever its Host header says.
IdentityOnlyWithValidToken ==
    (authUser.returned /\ authUser.user # Null) => CarriesValidToken(request)

====
